---- MODULE Spec2Model ----
(***************************************************************************)
(* Atlas Researcher: the session store (research-session.ts), the          *)
(* session-aware research pipeline (app/api/research/route.ts) and the     *)
(* completion gateway with its usage tracker (openrouter.ts, models.ts).   *)
(*                                                                         *)
(* JavaScript runs one callback at a time: every action below is the code  *)
(* that runs between two awaits of a request handler or of a pipeline run. *)
(***************************************************************************)
EXTENDS Integers, Sequences, FiniteSets, TLC

\* ------------------------------------------------------------------------
\* Bounds of the model
\* ------------------------------------------------------------------------
\* The model is explored in two scenarios, each with its own bounds:
\*   "sessions": several runs and sessions side by side, the clock moving, every
\*               caller reading its stream to the end, and collaborators that
\*               always succeed once the plan is well-formed;
\*   "stream":   one run at a time on one session, with heartbeats firing and
\*               the caller free to disconnect, and the collaborators free in
\*               what they return.
Scenarios == {"sessions", "stream"}
MaxSessions == 2      \* sessions ever created, "sessions" scenario
MaxRuns == 2          \* runs ever started, "sessions" scenario
MaxTicks == 1         \* clock ticks, "sessions" scenario
StreamSessions == 1   \* sessions ever created, "stream" scenario
StreamRuns == 1       \* runs ever started, "stream" scenario
MaxHeartbeats == 1    \* heartbeat callbacks over all runs, "stream" scenario
MaxDisconnects == 1   \* callers that disconnect, "stream" scenario
MaxResults == 1       \* results a subtopic search returns

\* ------------------------------------------------------------------------
\* Program constants
\* ------------------------------------------------------------------------
ResumeWindowHours == 2
MinQuestionLength == 10

\* Request inputs: an absent question, one that is too short, two valid ones.
Questions == {"", "short", "q1", "q2"}

QuestionLength(q) ==
  CASE q = "" -> 0
    [] q = "short" -> 5
    [] OTHER -> 20

\* A subtopic that the planning model returned as a JSON object, not a string.
NonString == "#object"

\* Plans the Plan phase can hand back: parseResponse accepts any JSON array.
Plans == { [subtopics |-> <<"t1">>], [subtopics |-> <<"t1", NonString>>] }

\* Scores the evaluation model can give a source (relevance, credibility).
ScoreChoices == { [relevanceScore |-> 8, credibilityScore |-> 7],
                  [relevanceScore |-> 3, credibilityScore |-> 7] }

MODEL_STRATEGY ==
  [ planning |-> "google/gemini-2.5-flash-preview-09-2025",
    reasoning |-> "google/gemini-2.5-flash-preview-09-2025",
    summarization |-> "google/gemini-2.5-flash-preview-09-2025",
    synthesis |-> "google/gemini-2.5-flash-preview-09-2025",
    fallback |-> "google/gemini-2.5-flash-lite-preview-09-2025" ]

FALLBACK_MODELS ==
  << "google/gemini-2.5-flash-lite-preview-09-2025",
     "meta-llama/llama-3.1-70b-instruct:free",
     "meta-llama/llama-3.1-8b-instruct:free",
     "google/gemini-2.0-flash-001" >>

getModelForTask(task) == MODEL_STRATEGY[task]

getFallbackModels(primaryModel) ==
  LET keep(m) == m # primaryModel IN SelectSeq(FALLBACK_MODELS, keep)

\* ------------------------------------------------------------------------
\* Values
\* ------------------------------------------------------------------------
\* An optional field is a sequence: <<>> is undefined, <<v>> holds v.
Undefined == << >>
Some(v) == << v >>

StatusOrder == << "pending", "planning", "searching", "evaluating",
                  "synthesizing", "completed" >>
Terminal == {"completed", "failed"}
Slots == {"planningResult", "searchResults", "evaluationResults", "synthesisResult"}

RECURSIVE SumSeq(_)
SumSeq(s) == IF s = << >> THEN 0 ELSE Head(s) + SumSeq(Tail(s))

VARIABLES
  objects,    \* every ResearchSession object ever created, by id
  mapKeys,    \* the ids that are keys of ResearchSessionStorage.sessions
  runs,       \* the pipeline runs (one per event stream), in start order
  now,        \* the clock, in hours
  apiKey,     \* whether OPENROUTER_API_KEY is set
  response,   \* the HTTP response the last step sent, if it sent one
  scenario,   \* the scenario explored (fixes the bounds that apply)
  chat,       \* one planning job's chatWithFallback call and usage tracker
  search,     \* one call of SearcherAgent.searchAllSubtopics
  evaluation, \* one call of EvaluatorAgent.evaluateSearchResults
  planning    \* one call of PlannerAgent.planResearch

vars == << objects, mapKeys, runs, now, apiKey, response, scenario,
           chat, search, evaluation, planning >>

\* The pipeline's own state, and the agents' calls explored on their own.
pipeline == << objects, mapKeys, runs, now, apiKey, response, scenario >>
agents == << chat, search, evaluation, planning >>

RunIds == 1..Len(runs)

SessionLimit == IF scenario = "stream" THEN StreamSessions ELSE MaxSessions
RunLimit == IF scenario = "stream" THEN StreamRuns ELSE MaxRuns
TickLimit == IF scenario = "stream" THEN 0 ELSE MaxTicks
HeartbeatLimit == IF scenario = "stream" THEN MaxHeartbeats ELSE 0
DisconnectLimit == IF scenario = "stream" THEN MaxDisconnects ELSE 0

\* What the collaborators may return, per scenario.
SearchCounts == IF scenario = "stream" THEN 0..MaxResults ELSE {MaxResults}
Scores == IF scenario = "stream" THEN ScoreChoices
          ELSE { [relevanceScore |-> 8, credibilityScore |-> 7] }
EvaluationMayThrow == scenario = "stream"
\* Whether the completion call of the synthesis answers on some model.
SynthesisCompletions == IF scenario = "stream" THEN BOOLEAN ELSE {TRUE}

\* ------------------------------------------------------------------------
\* ResearchSessionStorage
\* ------------------------------------------------------------------------
\* The store: the Map restricted to its keys.
Store(objs, keys) == [objs |-> objs, keys |-> keys]

newSession(id, question, t) ==
  [ id |-> id, question |-> question, status |-> "pending", progress |-> 0,
    currentPhase |-> "Initializing", details |-> Undefined,
    createdAt |-> t, updatedAt |-> t, completedAt |-> Undefined,
    errorMessage |-> Undefined,
    planningResult |-> Undefined, searchResults |-> Undefined,
    evaluationResults |-> Undefined, synthesisResult |-> Undefined,
    metadata |-> Undefined ]

\* Object.assign(session, updates)
Assign(session, updates) ==
  [ f \in DOMAIN session |-> IF f \in DOMAIN updates THEN updates[f] ELSE session[f] ]

updatedObject(session, updates, t) ==
  LET a == Assign(session, updates)
      b == [a EXCEPT !.updatedAt = t]
  IN IF "status" \in DOMAIN updates /\ updates.status = "completed"
        /\ b.completedAt = Undefined
     THEN [b EXCEPT !.completedAt = Some(t)]
     ELSE b

\* Variant of updateSession that writes the updates to every stored session.
updateSessionShared(st, sessionId, updates, t) ==
  IF sessionId \notin st.keys
  THEN st
  ELSE [st EXCEPT !.objs = [ i \in DOMAIN st.objs |->
                               IF i \in st.keys THEN updatedObject(st.objs[i], updates, t)
                               ELSE st.objs[i] ]]

\* Variant of updateSession that stores the session again when the Map has
\* lost it.
updateSessionUpserting(st, sessionId, updates, t) ==
  IF sessionId \notin DOMAIN st.objs
  THEN st
  ELSE [st EXCEPT !.keys = @ \cup {sessionId},
                  !.objs[sessionId] = updatedObject(@, updates, t)]

updateSession(st, sessionId, updates, t) ==
  IF sessionId \notin st.keys
  THEN st
  ELSE [st EXCEPT !.objs[sessionId] = updatedObject(@, updates, t)]

getSession(st, sessionId) ==
  IF sessionId \in st.keys THEN Some(st.objs[sessionId]) ELSE Undefined

\* An object that left the Map is out of reach of every store operation; a run
\* that still holds it reads its id and its result slots and nothing else, so
\* the other fields of the orphan are not kept.
orphan(session) ==
  [ f \in DOMAIN session |->
      IF f \in Slots \cup {"id"} THEN session[f] ELSE newSession(session.id, "", 0)[f] ]

deleteSession(st, sessionId) ==
  IF sessionId \notin st.keys
  THEN st
  ELSE [st EXCEPT !.keys = @ \ {sessionId}, !.objs[sessionId] = orphan(@)]

\* Variant of resumable with the age comparison reversed.
resumableOutsideWindow(session, question, t) ==
  /\ session.question = question
  /\ session.status \notin Terminal
  /\ session.createdAt < t - ResumeWindowHours

resumable(session, question, t) ==
  /\ session.question = question
  /\ session.status \notin Terminal
  /\ session.createdAt > t - ResumeWindowHours

\* The Map iterates in insertion order, which is the order of the ids.
canResumeSession(st, question, t) ==
  LET hits == { i \in st.keys : resumable(st.objs[i], question, t) }
  IN IF hits = {} THEN Undefined
     ELSE Some(st.objs[CHOOSE i \in hits : \A j \in hits : i <= j])

canBeResumed(st, sessionId) ==
  sessionId \in st.keys /\ st.objs[sessionId].status \notin Terminal

\* Variant of resumedObject that also empties the result slots.
resumedObjectFromScratch(session, t) ==
  [session EXCEPT !.status = "pending", !.progress = 0,
                  !.currentPhase = "Resuming research",
                  !.updatedAt = t, !.errorMessage = Undefined,
                  !.planningResult = Undefined, !.searchResults = Undefined,
                  !.evaluationResults = Undefined, !.synthesisResult = Undefined]

resumedObject(session, t) ==
  [session EXCEPT !.status = "pending", !.progress = 0,
                  !.currentPhase = "Resuming research",
                  !.updatedAt = t, !.errorMessage = Undefined]

resumeSession(st, sessionId, t) ==
  IF ~canBeResumed(st, sessionId)
  THEN st
  ELSE [st EXCEPT !.objs[sessionId] = resumedObject(@, t)]

\* research-session.ts 203-206, 218: what resumeSession returns, Undefined
\* for null
resumeSessionReturn(st, sessionId, t) ==
  IF ~canBeResumed(st, sessionId)
  THEN Undefined
  ELSE Some(resumeSession(st, sessionId, t).objs[sessionId])

createSession(st, id, question, t) ==
  [ objs |-> [i \in DOMAIN st.objs \cup {id} |->
                IF i = id THEN newSession(id, question, t) ELSE st.objs[i]],
    keys |-> st.keys \cup {id} ]

\* ------------------------------------------------------------------------
\* ModelRouter.createModelUsageTracker
\* ------------------------------------------------------------------------
trackUsage(usage, model, promptTokens, completionTokens) ==
  Append(usage, [ model |-> model, promptTokens |-> promptTokens,
                  completionTokens |-> completionTokens,
                  totalTokens |-> promptTokens + completionTokens ])

getTotalUsage(usage) ==
  [ totalTokens |-> SumSeq([i \in 1..Len(usage) |-> usage[i].totalTokens]),
    modelsUsed |-> { usage[i].model : i \in 1..Len(usage) } ]

\* ------------------------------------------------------------------------
\* OpenRouterClient.chat and chatWithFallback, as the Plan phase calls them
\* ------------------------------------------------------------------------
\* What the completion API answers for one model: an HTTP status and, for an
\* error, the message of its body.
GatewayOutcomes ==
  { [status |-> 200, message |-> ""],
    [status |-> 429, message |-> "slow down"],
    [status |-> 401, message |-> "no auth"],
    [status |-> 402, message |-> "no credits"],
    [status |-> 500, message |-> "server error"],
    [status |-> 500, message |-> "Rate limit exceeded"] }

\* openrouter.ts 59-75: the Error that chat throws; a message is its parts.
chatError(outcome) ==
  CASE outcome.status = 429 -> << "Rate limit exceeded", outcome.message >>
    [] outcome.status = 401 -> << "Invalid API key" >>
    [] outcome.status = 402 -> << "Insufficient credits" >>
    [] OTHER -> << "OpenRouter API error", outcome.message >>

\* error.message.includes('Rate limit exceeded')
includesRateLimit(message) ==
  \E k \in 1..Len(message) : message[k] = "Rate limit exceeded"

noChat ==
  [ pc |-> "idle", models |-> << >>, gateway |-> << >>, i |-> 0,
    called |-> << >>, response |-> Undefined, error |-> Undefined,
    plan |-> "", usage |-> << >> ]

\* chatWithFallback(request, fallbackModels), entered: models is
\* [request.model, ...fallbackModels] and i the index of the loop.
startChat(model, fallbackModels, gateway) ==
  [ noChat EXCEPT !.pc = "loop", !.models = << model >> \o fallbackModels,
                  !.gateway = gateway ]

\* Variant of chatIteration that rethrows every error, rate limits included.
chatIterationNoFallback(ch) ==
  LET outcome == ch.gateway[ch.i + 1]
      c1 == [ch EXCEPT !.called = Append(@, ch.models[ch.i + 1])]
  IN IF outcome.status = 200
     THEN [c1 EXCEPT !.pc = "returned", !.response = Some([model |-> ch.models[ch.i + 1]])]
     ELSE [c1 EXCEPT !.pc = "threw", !.error = Some(chatError(outcome))]

\* openrouter.ts 84-96: one iteration of the loop
chatIteration(ch) ==
  LET outcome == ch.gateway[ch.i + 1]
      c1 == [ch EXCEPT !.called = Append(@, ch.models[ch.i + 1])]
  IN IF outcome.status = 200
     THEN [c1 EXCEPT !.pc = "returned", !.response = Some([model |-> ch.models[ch.i + 1]])]
     ELSE IF includesRateLimit(chatError(outcome)) /\ ch.i < Len(ch.models) - 1
     THEN [c1 EXCEPT !.i = @ + 1]
     ELSE [c1 EXCEPT !.pc = "threw", !.error = Some(chatError(outcome))]

\* models.ts 255-287, route.ts 37-40: planResearch settles (a rejection of
\* chatWithFallback is caught and answered with the fallback plan), and the
\* pipeline records the usage of the phase.
planTracked(ch) ==
  [ ch EXCEPT !.pc = "tracked",
              !.plan = IF ch.pc = "returned" THEN "parsed" ELSE "fallback",
              !.usage = trackUsage(@, getModelForTask("planning"), 500, 300) ]

\* ------------------------------------------------------------------------
\* SearcherAgent: the backends, searchSubtopic and searchAllSubtopics
\* ------------------------------------------------------------------------
\* One item of response.data.results of the Tavily API: content and snippet
\* are optional.
TavilyItem(n, content, snippet) ==
  [ url |-> << "url", n >>, title |-> << "title", n >>,
    content |-> content, snippet |-> snippet ]

\* What the Tavily API answers: an error (or no key configured), or a list
\* of items: none, one with content, one with a snippet only, one with
\* neither, or six.
TavilyAnswers ==
  { [ok |-> FALSE, items |-> << >>],
    [ok |-> TRUE, items |-> << >>],
    [ok |-> TRUE, items |-> << TavilyItem(1, Some(<< "content" >>), Undefined) >>],
    [ok |-> TRUE, items |-> << TavilyItem(1, Undefined, Some(<< "snippet" >>)) >>],
    [ok |-> TRUE, items |-> << TavilyItem(1, Undefined, Undefined) >>],
    [ok |-> TRUE, items |-> [n \in 1..6 |-> TavilyItem(n, Some(<< "content" >>), Undefined)]] }

\* What the Perplexity API answers: an error, or a text of numbered sections
\* (a first line and the rest) in which the URL pattern matches some URLs.
PerplexitySection(n) == [ first |-> << "title", n >>, rest |-> << "text", n >> ]

PerplexityAnswers ==
  { [ok |-> FALSE, sections |-> << >>, urls |-> << >>],
    [ok |-> TRUE, sections |-> << >>, urls |-> << >>],
    [ok |-> TRUE, sections |-> << PerplexitySection(1) >>, urls |-> << << "url", 1 >> >>],
    [ok |-> TRUE, sections |-> << PerplexitySection(1), PerplexitySection(2) >>,
     urls |-> << << "url", 1 >> >>],
    [ok |-> TRUE, sections |-> [n \in 1..6 |-> PerplexitySection(n)],
     urls |-> [n \in 1..6 |-> << "url", n >>]] }

BackendAnswers ==
  [ tavily : TavilyAnswers, backup : TavilyAnswers, perplexity : PerplexityAnswers ]

\* array.slice(0, n)
Slice(s, n) == SubSeq(s, 1, IF Len(s) < n THEN Len(s) ELSE n)

\* searcher.ts 280-314 (and 316-350 for the backup key): an error is caught
\* and answered with no results.
tavilySearch(answer) ==
  IF ~answer.ok
  THEN << >>
  ELSE [ k \in 1..Len(answer.items) |->
           [ url |-> answer.items[k].url,
             title |-> answer.items[k].title,
             snippet |-> IF answer.items[k].content # Undefined
                         THEN answer.items[k].content[1]
                         ELSE IF answer.items[k].snippet # Undefined
                         THEN answer.items[k].snippet[1]
                         ELSE << "No description available" >>,
             source |-> "tavily" ] ]

\* searcher.ts 352-410
perplexitySearch(answer) ==
  IF ~answer.ok
  THEN << >>
  ELSE LET sections == Slice(answer.sections, 5)
       IN [ k \in 1..Len(sections) |->
              [ url |-> IF k <= Len(answer.urls) THEN answer.urls[k]
                        ELSE << "https://example.com" >>,
                title |-> sections[k].first,
                snippet |-> sections[k].rest,
                source |-> "perplexity" ] ]

SearchEntry(subtopic, results) ==
  [ subtopic |-> subtopic, results |-> results, searchQuery |-> << "query", subtopic >> ]

\* searcher.ts 25-76, for a subtopic that is a string: the entry of the first
\* backend with results, or Undefined when the function throws.
searchSubtopic(subtopic, answers) ==
  LET viaTavily == tavilySearch(answers.tavily)
      viaBackup == tavilySearch(answers.backup)
      viaPerplexity == perplexitySearch(answers.perplexity)
  IN IF Len(viaTavily) > 0 THEN Some(SearchEntry(subtopic, Slice(viaTavily, 5)))
     ELSE IF Len(viaBackup) > 0 THEN Some(SearchEntry(subtopic, Slice(viaBackup, 5)))
     ELSE IF Len(viaPerplexity) > 0 THEN Some(SearchEntry(subtopic, Slice(viaPerplexity, 5)))
     ELSE Undefined

\* The backends that searchSubtopic called, with what they answered.
asked(answers) ==
  IF Len(tavilySearch(answers.tavily)) > 0
  THEN << answers.tavily >>
  ELSE IF Len(tavilySearch(answers.backup)) > 0
  THEN << answers.tavily, answers.backup >>
  ELSE << answers.tavily, answers.backup, answers.perplexity >>

\* delayed[k] tells whether the one-second pause of searcher.ts 257 elapsed
\* after the k-th search, before the loop went on.
noSearch ==
  [ pc |-> "idle", subtopics |-> << >>, i |-> 0, asked |-> << >>, results |-> << >>,
    delayed |-> << >> ]

startSearch(subtopics) == [ noSearch EXCEPT !.pc = "loop", !.subtopics = subtopics ]

\* Variant of searchIteration that gives up at the first subtopic that fails.
searchIterationAborting(s, answers) ==
  LET subtopic == s.subtopics[s.i + 1]
      found == searchSubtopic(subtopic, answers)
  IN IF subtopic = NonString \/ found = Undefined
     THEN [ s EXCEPT !.pc = "threw" ]
     ELSE [ s EXCEPT !.i = @ + 1, !.asked = Append(@, asked(answers)),
                     !.results = Append(@, found[1]),
                     !.delayed = Append(@, TRUE) ]

\* searcher.ts 251-267: one iteration of the loop of searchAllSubtopics.
\* For a subtopic that is not a string generateSearchQuery throws a TypeError
\* before any backend is called, and again inside the catch.  The pause
\* (257) follows the push inside the try, so a search that threw skips it.
searchIteration(s, answers) ==
  LET subtopic == s.subtopics[s.i + 1]
      found == searchSubtopic(subtopic, answers)
  IN IF subtopic = NonString
     THEN [ s EXCEPT !.pc = "threw" ]
     ELSE [ s EXCEPT !.i = @ + 1, !.asked = Append(@, asked(answers)),
                     !.results = Append(@, IF found = Undefined
                                           THEN SearchEntry(subtopic, << >>)
                                           ELSE found[1]),
                     !.delayed = Append(@, found # Undefined) ]

\* ------------------------------------------------------------------------
\* EvaluatorAgent: scores
\* ------------------------------------------------------------------------
\* A score as the evaluation model wrote it in its JSON: a number, a text
\* that parseFloat reads as a number, any other text, or nothing.
RawScore(kind, value) == [ kind |-> kind, value |-> value ]

RawScores ==
  { RawScore("number", v) : v \in {-2, 0, 7, 10, 12} }
    \cup { RawScore("numericText", 8), RawScore("text", 0), RawScore("missing", 0) }

\* parseFloat(score): Undefined stands for NaN.
parseFloat(score) ==
  IF score.kind \in {"number", "numericText"} THEN Some(score.value) ELSE Undefined

\* Variant of validateScore that only replaces NaN.
validateScoreUnclamped(score) ==
  IF parseFloat(score) = Undefined THEN 5 ELSE parseFloat(score)[1]

\* evaluator.ts 352-356
validateScore(score) ==
  LET numScore == parseFloat(score)
  IN IF numScore = Undefined THEN 5
     ELSE LET low == IF numScore[1] < 10 THEN numScore[1] ELSE 10
          IN IF low > 0 THEN low ELSE 0

\* The kinds of host a source url can have, as assessDomainCredibility
\* tells them apart; "invalid" is a url that new URL() rejects.
Domains == {"high", "medium", "eduGovOrg", "com", "other", "invalid"}

\* evaluator.ts 358-386
assessDomainCredibility(domain) ==
  CASE domain = "high" -> 9
    [] domain = "medium" -> 7
    [] domain = "eduGovOrg" -> 6
    [] domain = "com" -> 5
    [] OTHER -> 4

\* evaluator.ts 388-401: matchCount of the wordCount words of the subtopic
\* occur in the text; Math.round rounds a half up.
assessRelevanceByKeywords(matchCount, wordCount) ==
  LET rounded == (20 * matchCount + wordCount) \div (2 * wordCount)
      atLeast == IF rounded > 1 THEN rounded ELSE 1
  IN IF atLeast < 10 THEN atLeast ELSE 10

\* A search result as the evaluator reads it: its url, the kind of its host,
\* and how many of the subtopic's words its snippet holds.
Source(n, domain, matchCount, wordCount) ==
  [ url |-> << "url", n >>, domain |-> domain,
    matchCount |-> matchCount, wordCount |-> wordCount ]

\* evaluator.ts 332-350; an empty subtopic is the '' that
\* parseEvaluationResponse passes.
createFallbackEvaluation(searchResult, subtopic) ==
  [ url |-> searchResult.url,
    relevanceScore |-> IF subtopic # ""
                       THEN assessRelevanceByKeywords(searchResult.matchCount,
                                                      searchResult.wordCount)
                       ELSE 5,
    credibilityScore |-> assessDomainCredibility(searchResult.domain),
    tier |-> "heuristic", item |-> Undefined ]

\* One element of the model's JSON answer.
ReplyItem(relevanceScore, credibilityScore) ==
  [ relevanceScore |-> relevanceScore, credibilityScore |-> credibilityScore ]

ReplyItems ==
  { ReplyItem(RawScore("number", 7), RawScore("number", 10)),
    ReplyItem(RawScore("number", -2), RawScore("number", 12)),
    ReplyItem(RawScore("text", 0), RawScore("missing", 0)),
    ReplyItem(RawScore("numericText", 8), RawScore("number", 0)) }

\* evaluator.ts 302-330: content is Undefined when no JSON object is found
\* or JSON.parse throws.
parseEvaluationResponse(content, searchResult) ==
  IF content = Undefined
  THEN createFallbackEvaluation(searchResult, "")
  ELSE [ url |-> searchResult.url,
         relevanceScore |-> validateScore(content[1].relevanceScore),
         credibilityScore |-> validateScore(content[1].credibilityScore),
         tier |-> "individual", item |-> content ]

\* evaluator.ts 246-300: answer is the outcome of chatWithFallback
evaluateWithModel(searchResult, answer, subtopic) ==
  IF ~answer.ok
  THEN createFallbackEvaluation(searchResult, subtopic)
  ELSE parseEvaluationResponse(answer.content, searchResult)

IndividualAnswers ==
  { [ok |-> FALSE, content |-> Undefined], [ok |-> TRUE, content |-> Undefined] }
    \cup { [ok |-> TRUE, content |-> Some(item)] : item \in ReplyItems }

\* evaluator.ts 187-213: the records of a JSON array answer, or Undefined
\* when it throws: no array found, JSON.parse fails, or the array has more
\* elements than the batch (originalResults[index] is undefined). The
\* elements carry no url of their own, so a record takes its source's.
parseBatchResponse(content, originalResults) ==
  IF content = Undefined \/ Len(content[1]) > Len(originalResults)
  THEN Undefined
  ELSE Some([ index \in 1..Len(content[1]) |->
                [ url |-> originalResults[index].url,
                  relevanceScore |-> validateScore(content[1][index].relevanceScore),
                  credibilityScore |-> validateScore(content[1][index].credibilityScore),
                  tier |-> "batch", item |-> Some(content[1][index]) ] ])

\* evaluator.ts 103-185
evaluateBatch(batch, answer) ==
  IF ~answer.ok THEN Undefined ELSE parseBatchResponse(answer.content, batch)

\* ------------------------------------------------------------------------
\* EvaluatorAgent.evaluateSearchResults, one batch at a time
\* ------------------------------------------------------------------------
\* evaluator.ts 64
BatchSize == 4

\* evaluator.ts 59: the number of sources evaluateSubtopic keeps
maxSources(researchMode) == IF researchMode = "max" THEN 999 ELSE 10

\* evaluator.ts 60
limitedResults(searchResult, researchMode) ==
  IF researchMode = "max" THEN searchResult.results
  ELSE Slice(searchResult.results, maxSources(researchMode))

\* evaluator.ts 66: limitedResults.slice(i, i + batchSize), i counted from 0
batchAt(limited, i) ==
  [ k \in 1..(IF Len(limited) - i < BatchSize THEN Len(limited) - i ELSE BatchSize)
      |-> limited[i + k] ]

\* evaluator.ts 86-92: an average is kept as the pair << sum, count >>,
\* and << 0, 1 >> is the 0 of an empty list.
average(scores) ==
  IF Len(scores) = 0 THEN << 0, 1 >> ELSE << SumSeq(scores), Len(scores) >>

\* evaluator.ts 86-100
EvaluationResult(subtopic, evaluatedContent) ==
  [ subtopic |-> subtopic,
    evaluatedContent |-> evaluatedContent,
    totalSources |-> Len(evaluatedContent),
    averageRelevance |->
      average([ k \in 1..Len(evaluatedContent) |-> evaluatedContent[k].relevanceScore ]),
    averageCredibility |->
      average([ k \in 1..Len(evaluatedContent) |-> evaluatedContent[k].credibilityScore ]) ]

\* No call of evaluateSearchResults is being explored.
noEvaluation ==
  [ pc |-> "idle", researchMode |-> "normal", searchResults |-> << >>,
    s |-> 0, i |-> 0, evaluatedContent |-> << >>, results |-> << >>,
    thrown |-> << >>, highQualityResults |-> << >> ]

\* evaluator.ts 34-38: s subtopics are done, i sources of the next one have
\* been handed to evaluateBatch; thrown lists the batches whose
\* evaluateBatch threw.
startEvaluation(searchResults, researchMode) ==
  [ noEvaluation EXCEPT !.pc = "loop", !.researchMode = researchMode,
                        !.searchResults = searchResults ]

\* Variant of the batch step in which evaluateSearchResults has no catch.
evaluateBatchStepUncaught(e, answer) ==
  LET searchResult == e.searchResults[e.s + 1]
      limited == limitedResults(searchResult, e.researchMode)
      batch == batchAt(limited, e.i)
      batchResults == evaluateBatch(batch, answer)
  IN IF batchResults # Undefined
     THEN [ e EXCEPT !.evaluatedContent = @ \o batchResults[1], !.i = @ + BatchSize ]
     ELSE [ e EXCEPT !.pc = "threw",
                     !.thrown = Append(@, [ s |-> e.s + 1, batch |-> batch ]) ]

\* evaluator.ts 65-83 and 40-51: one turn of evaluateSubtopic's batch loop.
\* When evaluateBatch throws, the catch at 71 runs console.error at 72, whose
\* template reads the undeclared name allResults: that is a ReferenceError
\* thrown inside the catch, so the individual evaluations of 73-81 do not
\* run, evaluateSubtopic rejects, and the catch of evaluateSearchResults
\* (40-51) records an empty result for the subtopic.
evaluateBatchStep(e, answer) ==
  LET searchResult == e.searchResults[e.s + 1]
      limited == limitedResults(searchResult, e.researchMode)
      batch == batchAt(limited, e.i)
      batchResults == evaluateBatch(batch, answer)
  IN IF batchResults # Undefined
     THEN [ e EXCEPT !.evaluatedContent = @ \o batchResults[1], !.i = @ + BatchSize ]
     ELSE [ e EXCEPT !.results = Append(@, EvaluationResult(searchResult.subtopic, << >>)),
                     !.s = @ + 1, !.i = 0, !.evaluatedContent = << >>,
                     !.thrown = Append(@, [ s |-> e.s + 1, batch |-> batch ]) ]

\* evaluator.ts 85-100 and 39: the batch loop is over, the subtopic's
\* result is pushed.
evaluateSubtopicReturns(e) ==
  [ e EXCEPT !.results = Append(@, EvaluationResult(e.searchResults[e.s + 1].subtopic,
                                                     e.evaluatedContent)),
             !.s = @ + 1, !.i = 0, !.evaluatedContent = << >> ]

\* ------------------------------------------------------------------------
\* SynthesizerAgent: the citation numbers of the synthesis prompt
\* ------------------------------------------------------------------------
\* part_003 146: the factor of the subtopic's index
CitationStride == 10

\* Variant of citationNumber whose stride is the batch size.
citationNumberNarrow(index, contentIndex) == (index * BatchSize) + contentIndex + 1

\* part_003 146: index and contentIndex are forEach's, counted from 0
citationNumber(index, contentIndex) == (index * CitationStride) + contentIndex + 1

\* part_003 139-165: the citation numbers formatResearchData writes, one
\* list per evaluation result, in the order it writes them.
formatResearchData(evaluationResults) ==
  [ r \in 1..Len(evaluationResults) |->
      [ k \in 1..Len(evaluationResults[r].evaluatedContent) |->
          citationNumber(r - 1, k - 1) ] ]

\* ------------------------------------------------------------------------
\* SynthesizerAgent: reports and their citation markers. A text is modelled
\* by the citation markers "[digits]" it contains, in order, each marker as
\* its sequence of digits, and by whether it mentions 'sources' or
\* 'references'. Titles, URLs and summaries are taken to hold no marker.
\* ------------------------------------------------------------------------
\* The decimal digits a template literal writes for a number
RECURSIVE digits(_)
digits(n) == IF n < 10 THEN << n >> ELSE digits(n \div 10) \o << n % 10 >>

RECURSIVE flatMap(_)
flatMap(lists) == IF lists = << >> THEN << >> ELSE Head(lists) \o flatMap(Tail(lists))

\* part_003 191-197: citationNumber starts at 1 and is incremented after
\* every source, so source k of result r (both from 1) gets this number.
sourcesSectionNumber(evaluationResults, r, k) ==
  SumSeq([ j \in 1..(r - 1) |-> Len(evaluationResults[j].evaluatedContent) ]) + k

\* part_003 189-201: the markers of the generated Sources section; an empty
\* section is replaced by a line that starts with "[1]".
generateSourcesSection(evaluationResults) ==
  LET sources == flatMap([ r \in 1..Len(evaluationResults) |->
                   [ k \in 1..Len(evaluationResults[r].evaluatedContent) |->
                       digits(sourcesSectionNumber(evaluationResults, r, k)) ] ])
  IN IF sources = << >> THEN << digits(1) >> ELSE sources

\* part_003 167-187: the Sources section is appended when the text mentions
\* neither 'sources' nor 'references'; title and footer hold no marker.
postProcessReport(content, evaluationResults) ==
  IF content.mentionsSources
  THEN content
  ELSE [ markers |-> content.markers \o generateSourcesSection(evaluationResults),
         mentionsSources |-> TRUE ]

\* part_003 308-311: the size of the Set of the matches of /\[\d+\]/g
countCitations(content) ==
  Cardinality({ content.markers[k] : k \in 1..Len(content.markers) })

\* part_003 203-254: the template's Sources section numbers the sources of
\* each result from 1 (flatMap over map's index); citationsUsed is the
\* number of evaluated sources.
generateFallbackReport(evaluationResults) ==
  [ fullReport |->
      [ markers |-> flatMap([ r \in 1..Len(evaluationResults) |->
                      [ k \in 1..Len(evaluationResults[r].evaluatedContent) |->
                          digits(k) ] ]),
        mentionsSources |-> TRUE ],
    citationsUsed |->
      SumSeq([ r \in 1..Len(evaluationResults) |->
                 Len(evaluationResults[r].evaluatedContent) ]),
    modelUsed |-> "fallback" ]

\* part_003 22-58 with the completion's text given: reply is Undefined when
\* generateMainReport throws.
synthesizeReportFrom(reply, evaluationResults) ==
  IF reply = Undefined
  THEN generateFallbackReport(evaluationResults)
  ELSE LET reportContent == postProcessReport(reply[1], evaluationResults)
       IN [ fullReport |-> reportContent,
            citationsUsed |-> countCitations(reportContent),
            modelUsed |-> getModelForTask("synthesis") ]

\* Texts a completion may return
ReportReplies ==
  { [ markers |-> ms, mentionsSources |-> b ] :
      ms \in { << >>, << <<1>> >>, << <<1>>, <<1>>, <<2>> >>, << <<0, 1>>, <<1>> >> },
      b \in BOOLEAN }

\* ------------------------------------------------------------------------
\* PlannerAgent.planResearch
\* ------------------------------------------------------------------------
\* models.ts 346-353: the subtopics of the fallback plan; the first one
\* names the query's first key word, or 'the topic'.
FallbackSubtopics ==
  << "Current state of", "Historical background and context",
     "Key challenges and problems", "Recent developments and trends",
     "Future outlook and predictions", "Expert opinions and analysis" >>

\* models.ts 341-360: keyWords is the number of words of the query that
\* are longer than 3 characters.
createFallbackPlan(keyWords) ==
  [ subtopics |-> Slice(FallbackSubtopics, IF keyWords + 2 < 6 THEN keyWords + 2 ELSE 6) ]

\* The planning model's answer as parseResponse reads it: Undefined when no
\* JSON object is found or JSON.parse throws, else the object, whose
\* subtopics are Undefined when the property is missing or not an array.
PlanContent(subtopics) == Some([ subtopics |-> subtopics ])

\* models.ts 311-334: an array is taken as it is, cut to 7 elements
parseResponse(content, keyWords) ==
  IF content = Undefined \/ content[1].subtopics = Undefined
  THEN createFallbackPlan(keyWords)
  ELSE [ subtopics |-> Slice(content[1].subtopics[1], 7) ]

\* models.ts 255-287: answer is the outcome of chatWithFallback
planResearch(keyWords, answer) ==
  IF ~answer.ok THEN createFallbackPlan(keyWords)
  ELSE parseResponse(answer.content, keyWords)

noPlanning ==
  [ pc |-> "idle", keyWords |-> 0,
    answer |-> [ok |-> FALSE, content |-> Undefined], result |-> Undefined ]

startPlanning(keyWords, answer) ==
  [ noPlanning EXCEPT !.pc = "chat", !.keyWords = keyWords, !.answer = answer ]

\* ------------------------------------------------------------------------
\* The pipeline run: POST's stream callback and
\* executeResearchWithProgression.  A context c is the store and the run
\* that one synchronous stretch of the code works on.
\* ------------------------------------------------------------------------
newRun(sessionId) ==
  [ sid |-> sessionId, pc |-> "init",
    planningResult |-> Undefined, searchResults |-> Undefined,
    evaluationResults |-> Undefined, synthesisResult |-> Undefined,
    cached |-> {},          \* the slots lines 26-29 found populated
    calls |-> << >>,        \* the phase executors called, in order
    usage |-> << >>,        \* the usage tracker of the job
    timer |-> "none",       \* the heartbeat interval that is set
    beats |-> 0,            \* heartbeat callbacks run so far
    stream |-> << >>,       \* the calls of controller.enqueue, in order
    connected |-> TRUE,     \* the caller still reads the stream
    closed |-> FALSE ]      \* controller.close() was called

Event(kind, phase, progress, details, sessionId) ==
  [ kind |-> kind, phase |-> phase, progress |-> progress,
    details |-> details, sessionId |-> sessionId ]

\* controller.enqueue throws once the stream is closed or cancelled.
canEnqueue(run) == run.connected /\ ~run.closed

\* controller.enqueue(event): the call is recorded with its outcome.
enqueue(run, event) ==
  [ run EXCEPT !.stream = Append(@, [event |-> event, delivered |-> canEnqueue(run)]) ]

\* session.status as sendProgress reads it: the run holds the very object
\* that the Map holds.
progressUpdate(session, phase, progress, details) ==
  [ status |-> session.status, progress |-> progress,
    currentPhase |-> phase, details |-> details ]

\* route.ts 223-245: the session is updated only if enqueue did not throw
sendProgress(c, phase, progress, details) ==
  LET c1 == [c EXCEPT !.run = enqueue(@, Event("progress", phase, progress, details, c.run.sid))]
  IN IF ~canEnqueue(c.run)
     THEN c1
     ELSE [ c1 EXCEPT
              !.store = updateSession(@, c.run.sid,
                          progressUpdate(c.store.objs[c.run.sid], phase, progress, details),
                          c.t) ]

\* Variant of update that writes only while the stream takes events.
updateWhileDelivering(c, updates) ==
  IF canEnqueue(c.run) THEN [c EXCEPT !.store = updateSession(@, c.run.sid, updates, c.t)]
  ELSE c

\* researchSessionStorage.updateSession(session.id, updates), called by the run
update(c, updates) ==
  [c EXCEPT !.store = updateSession(@, c.run.sid, updates, c.t)]

totalSources(searchResults) ==
  SumSeq([i \in 1..Len(searchResults) |-> Len(searchResults[i].results)])

evaluatedCount(evaluationResults) ==
  SumSeq([i \in 1..Len(evaluationResults) |-> Len(evaluationResults[i].evaluatedContent)])

\* route.ts 267-275: back in the stream callback, up to the await of saveReport
finalizing(c) ==
  [ sendProgress(c, "Finalizing report", 90, Undefined) EXCEPT !.run.pc = "save" ]

\* route.ts 120-145
phase4(c) ==
  IF c.run.synthesisResult = Undefined
  THEN LET c1 == sendProgress(c, "Generating research report", 75, Undefined)
           c2 == update(c1, [status |-> "synthesizing"])
       IN [ c2 EXCEPT !.run.pc = "synthesize", !.run.timer = "synth",
                      !.run.calls = Append(@, "synthesize") ]
  ELSE finalizing(sendProgress(c, "Resuming from synthesis phase", 75,
                               <<"Using previously generated report">>))

\* route.ts 82-118
phase3(c) ==
  IF c.run.evaluationResults = Undefined
  THEN LET c1 == sendProgress(c, "Evaluating sources", 45, Undefined)
           c2 == update(c1, [status |-> "evaluating"])
       IN [ c2 EXCEPT !.run.pc = "evaluate", !.run.timer = "eval",
                      !.run.calls = Append(@, "evaluate") ]
  ELSE phase4(sendProgress(c, "Resuming from evaluation phase", 70,
                <<"previously evaluated sources", evaluatedCount(c.run.evaluationResults[1])>>))

\* Variant of phase2 that searches whether or not results are stored.
phase2IgnoringStored(c) ==
  LET c1 == sendProgress(c, "Searching for information", 25, Undefined)
      c2 == update(c1, [status |-> "searching"])
  IN [ c2 EXCEPT !.run.pc = "search", !.run.timer = "search",
                 !.run.calls = Append(@, "search") ]

\* route.ts 53-80
phase2(c) ==
  IF c.run.searchResults = Undefined
  THEN LET c1 == sendProgress(c, "Searching for information", 25, Undefined)
           c2 == update(c1, [status |-> "searching"])
       IN [ c2 EXCEPT !.run.pc = "search", !.run.timer = "search",
                      !.run.calls = Append(@, "search") ]
  ELSE phase3(sendProgress(c, "Resuming from search phase", 40,
                <<"previously found sources", totalSources(c.run.searchResults[1])>>))

\* route.ts 31-51
phase1(c) ==
  IF c.run.planningResult = Undefined
  THEN LET c1 == sendProgress(c, "Planning research strategy", 10, Undefined)
           c2 == update(c1, [status |-> "planning"])
       IN [ c2 EXCEPT !.run.pc = "plan", !.run.calls = Append(@, "plan") ]
  ELSE phase2(sendProgress(c, "Resuming from planning phase", 20,
                <<"existing strategy subtopics", Len(c.run.planningResult[1].subtopics)>>))

\* route.ts 26-29: the locals are read from the session object of the run
readSlots(run, session) ==
  [ run EXCEPT !.planningResult = session.planningResult,
               !.searchResults = session.searchResults,
               !.evaluationResults = session.evaluationResults,
               !.synthesisResult = session.synthesisResult,
               !.cached = { f \in Slots : session[f] # Undefined } ]

\* ------------------------------------------------------------------------
\* HTTP responses
\* ------------------------------------------------------------------------
Respond(kind, code, sessionId, existingProgress, existingPhase) ==
  [ kind |-> kind, code |-> code, sessionId |-> sessionId,
    existingProgress |-> existingProgress, existingPhase |-> existingPhase ]

NoResponse == Respond("none", 0, 0, 0, "")
ErrorResponse(code) == Respond("error", code, 0, 0, "")
StreamResponse(sessionId) == Respond("stream", 200, sessionId, 0, "")

resumeNotice(session) ==
  Respond("resumeAvailable", 200, session.id, session.progress, session.currentPhase)

Init ==
  /\ objects = << >>
  /\ mapKeys = {}
  /\ runs = << >>
  /\ now = 0
  /\ apiKey \in BOOLEAN
  /\ response = NoResponse
  /\ scenario \in Scenarios
  /\ chat = noChat
  /\ search = noSearch
  /\ evaluation = noEvaluation
  /\ planning = noPlanning

TheStore == Store(objects, mapKeys)

Context(st, run) == [store |-> st, run |-> run, t |-> now]

Commit(c, r) ==
  /\ objects' = c.store.objs
  /\ mapKeys' = c.store.keys
  /\ runs' = [runs EXCEPT ![r] = c.run]

Reply(resp) ==
  /\ response' = resp
  /\ UNCHANGED << objects, mapKeys, runs, now, apiKey, scenario, agents >>

\* route.ts 218-253: the stream callback up to its first await
StartRun(st, sessionId) ==
  LET c == sendProgress(Context(st, newRun(sessionId)),
                        "Initializing research pipeline", 0, Undefined)
  IN /\ Len(runs) < RunLimit
     /\ objects' = c.store.objs
     /\ mapKeys' = c.store.keys
     /\ runs' = Append(runs, c.run)
     /\ response' = StreamResponse(sessionId)
     /\ UNCHANGED << now, apiKey, scenario, agents >>

\* route.ts 155-253: POST /api/research
POST(question, sessionId, resume) ==
  IF question = "" THEN Reply(ErrorResponse(400))
  ELSE IF ~apiKey THEN Reply(ErrorResponse(500))
  ELSE IF QuestionLength(question) < MinQuestionLength THEN Reply(ErrorResponse(400))
  ELSE IF resume /\ sessionId # 0
  THEN IF ~canBeResumed(TheStore, sessionId)
       THEN Reply(ErrorResponse(404))
       ELSE StartRun(resumeSession(TheStore, sessionId, now), sessionId)
  ELSE IF sessionId # 0
  THEN IF getSession(TheStore, sessionId) = Undefined
       THEN Reply(ErrorResponse(404))
       ELSE StartRun(TheStore, sessionId)
  ELSE IF canResumeSession(TheStore, question, now) # Undefined
  THEN Reply(resumeNotice(canResumeSession(TheStore, question, now)[1]))
  ELSE LET id == Cardinality(DOMAIN objects) + 1
       IN /\ id <= SessionLimit
          /\ StartRun(createSession(TheStore, id, question, now), id)

\* route.ts 407-434: PUT /api/research (session status)
PUT(sessionId) ==
  IF sessionId = 0 THEN Reply(ErrorResponse(400))
  ELSE IF getSession(TheStore, sessionId) = Undefined THEN Reply(ErrorResponse(404))
  ELSE Reply(Respond("session", 200, sessionId, 0, ""))

\* route.ts 436-463: DELETE /api/research
DELETE(sessionId) ==
  IF sessionId = 0 THEN Reply(ErrorResponse(400))
  ELSE IF sessionId \notin mapKeys THEN Reply(ErrorResponse(404))
  ELSE /\ mapKeys' = deleteSession(TheStore, sessionId).keys
       /\ objects' = deleteSession(TheStore, sessionId).objs
       /\ response' = Respond("deleted", 200, sessionId, 0, "")
       /\ UNCHANGED << runs, now, apiKey, scenario, agents >>

\* ------------------------------------------------------------------------
\* Phase executors, as the pipeline sees them
\* ------------------------------------------------------------------------
\* generateSearchQuery calls subtopic.toLowerCase(): a TypeError for a
\* subtopic that is not a string, raised outside the try of searchSubtopic
\* and again inside the catch of searchAllSubtopics.
searchThrows(subtopics) == \E i \in 1..Len(subtopics) : subtopics[i] = NonString

\* searchAllSubtopics: one entry per subtopic; counts[i] results for the i-th,
\* 0 when every backend failed for it.
searchAllSubtopics(subtopics, counts) ==
  [ i \in 1..Len(subtopics) |->
      [ subtopic |-> subtopics[i], results |-> [k \in 1..counts[i] |-> k] ] ]

\* What evaluateSubtopic can produce for one entry: nothing (it threw, or
\* there was nothing to evaluate) or one scored record per source.
evaluationsOf(entry) ==
  (IF EvaluationMayThrow THEN { << >> } ELSE {})
    \cup [ 1..Len(entry.results) -> Scores ]

evaluateSearchResults(searchResults, contents) ==
  [ i \in 1..Len(searchResults) |->
      [ subtopic |-> searchResults[i].subtopic,
        evaluatedContent |-> contents[i],
        totalSources |-> Len(contents[i]) ] ]

\* Variant of highQuality that accepts a source passing either threshold.
highQualityEither(content, minRelevance, minCredibility) ==
  content.relevanceScore >= minRelevance \/ content.credibilityScore >= minCredibility

highQuality(content, minRelevance, minCredibility) ==
  content.relevanceScore >= minRelevance /\ content.credibilityScore >= minCredibility

filterHighQualityContent(evaluationResults, minRelevance, minCredibility) ==
  LET keep(content) == highQuality(content, minRelevance, minCredibility)
      filtered == [ i \in 1..Len(evaluationResults) |->
                      [ evaluationResults[i] EXCEPT
                          !.evaluatedContent = SelectSeq(@, keep) ] ]
      nonEmpty(result) == Len(result.evaluatedContent) > 0
  IN SelectSeq(filtered, nonEmpty)

\* ------------------------------------------------------------------------
\* Steps of a pipeline run
\* ------------------------------------------------------------------------
RunContext(r) == Context(TheStore, runs[r])

Step(c, r) ==
  /\ Commit(c, r)
  /\ response' = NoResponse
  /\ UNCHANGED << now, apiKey, scenario, agents >>

\* route.ts 255-256, 23-51: after the 100 ms pause
Begin(r) ==
  /\ runs[r].pc = "init"
  /\ LET c == RunContext(r)
         c1 == [c EXCEPT !.run = readSlots(@, objects[c.run.sid])]
     IN Step(phase1(c1), r)

\* route.ts 37-48, then phase 2
planned(c, plan) ==
  LET c1 == [c EXCEPT !.run.planningResult = Some(plan),
                      !.run.usage = trackUsage(@, getModelForTask("planning"), 500, 300)]
      c2 == update(c1, [planningResult |-> Some(plan), status |-> "planning"])
  IN sendProgress(c2, "Research strategy created", 20,
                  <<"subtopics to investigate", Len(plan.subtopics)>>)

PlanDone(r) ==
  /\ runs[r].pc = "plan"
  /\ \E plan \in Plans : Step(phase2(planned(RunContext(r), plan)), r)

\* Variant of searched that reports the sources without storing them.
searchedUnsaved(c, searchResults) ==
  LET c1 == [c EXCEPT !.run.searchResults = Some(searchResults),
                      !.run.timer = "none"]
  IN sendProgress(c1, "Sources gathered", 40,
                  <<"potential sources", totalSources(searchResults)>>)

\* route.ts 65-76, then phase 3
searched(c, searchResults) ==
  LET c1 == [c EXCEPT !.run.searchResults = Some(searchResults),
                      !.run.timer = "none"]
      c2 == update(c1, [searchResults |-> Some(searchResults), status |-> "searching"])
  IN sendProgress(c2, "Sources gathered", 40,
                  <<"potential sources", totalSources(searchResults)>>)

SearchDone(r) ==
  /\ runs[r].pc = "search"
  /\ LET subtopics == runs[r].planningResult[1].subtopics
     IN /\ ~searchThrows(subtopics)
        /\ \E counts \in [1..Len(subtopics) -> SearchCounts] :
             Step(phase3(searched(RunContext(r), searchAllSubtopics(subtopics, counts))), r)

\* Variant of failed without the finally block: the stream stays open.
failedLeavingOpen(c, message) ==
  LET c1 == update(c, [status |-> "failed", errorMessage |-> Some(message)])
      ev == Event("error", "", -1, <<message>>, c.run.sid)
      c2 == [c1 EXCEPT !.run = enqueue(@, ev)]
  IN [ c2 EXCEPT !.run.pc = "done" ]

\* route.ts 335-375: the catch and finally of the stream callback
failed(c, message) ==
  LET c1 == update(c, [status |-> "failed", errorMessage |-> Some(message)])
      ev == Event("error", "", -1, <<message>>, c.run.sid)
      c2 == [c1 EXCEPT !.run = enqueue(@, ev)]
  IN [ c2 EXCEPT !.run.closed = TRUE, !.run.pc = "done" ]

SearchFail(r) ==
  /\ runs[r].pc = "search"
  /\ searchThrows(runs[r].planningResult[1].subtopics)
  /\ Step(failed(RunContext(r), "TypeError"), r)

\* route.ts 94-114, then phase 4
evaluated(c, evaluationResults) ==
  LET highQualityResults == filterHighQualityContent(evaluationResults, 5, 4)
      c1 == [c EXCEPT !.run.evaluationResults = Some(evaluationResults),
                      !.run.timer = "none",
                      !.run.usage = trackUsage(@, getModelForTask("reasoning"), 2000, 1500)]
      c2 == update(c1, [evaluationResults |-> Some(evaluationResults),
                        status |-> "evaluating"])
  IN sendProgress(c2, "Sources evaluated", 70,
                  <<"high-quality sources", evaluatedCount(highQualityResults)>>)

EvalDone(r) ==
  /\ runs[r].pc = "evaluate"
  /\ LET searchResults == runs[r].searchResults[1]
     IN \E contents \in [1..Len(searchResults) ->
                           UNION { evaluationsOf(searchResults[i]) : i \in 1..Len(searchResults) }] :
          /\ \A i \in 1..Len(searchResults) : contents[i] \in evaluationsOf(searchResults[i])
          /\ Step(phase4(evaluated(RunContext(r),
                                   evaluateSearchResults(searchResults, contents))), r)

\* route.ts 132-153, then 267-275
synthesized(c, synthesisResult) ==
  LET c1 == [c EXCEPT !.run.synthesisResult = Some(synthesisResult),
                      !.run.timer = "none"]
      c2 == update(c1, [synthesisResult |-> Some(synthesisResult),
                        status |-> "synthesizing"])
  IN [c2 EXCEPT !.run.usage = trackUsage(@, getModelForTask("synthesis"), 3000, 2000)]

\* route.ts 132: the session-aware pipeline hands synthesizeReport the
\* evaluation results as evaluateSearchResults returned them.
synthesisInput(run) == run.evaluationResults[1]

\* route.ts 530, 541 (the session-less POST): synthesizeReport is handed
\* highQualityResults, the output of the filter.
sessionlessSynthesisInput(evaluationResults) ==
  filterHighQualityContent(evaluationResults, 5, 4)

\* Variant of synthesizeReport without its catch: Undefined is a throw.
synthesizeReportRethrowing(answered, evaluationResults) ==
  IF answered THEN Some([modelUsed |-> getModelForTask("synthesis")]) ELSE Undefined

\* part_003 22-58 and 203-254: generateMainReport either returns the report
\* or throws (chatWithFallback failed on every model); the catch returns
\* generateFallbackReport's result, which is assembled from its arguments
\* alone: its citationsUsed is the number of evaluated sources it was handed
\* (part_003 250). The model path's count is taken from the reply's text.
\* Undefined would be a throw.
synthesizeReport(answered, evaluationResults) ==
  IF answered
  THEN Some([modelUsed |-> getModelForTask("synthesis")])
  ELSE Some([modelUsed |-> "fallback",
             citationsUsed |-> generateFallbackReport(evaluationResults).citationsUsed])

SynthDone(r) ==
  /\ runs[r].pc = "synthesize"
  /\ \E answered \in SynthesisCompletions :
       LET synthesisResult == synthesizeReport(answered, synthesisInput(runs[r]))
       IN IF synthesisResult = Undefined
          THEN Step(failed(RunContext(r), "SynthesisError"), r)
          ELSE Step(finalizing(synthesized(RunContext(r), synthesisResult[1])), r)

\* route.ts 285-333, 369-375: saveReport settled (a rejection is caught)
jobMetadata(run) ==
  [ totalTokens |-> getTotalUsage(run.usage).totalTokens,
    modelsUsed |-> getTotalUsage(run.usage).modelsUsed,
    subtopicsInvestigated |-> Len(run.planningResult[1].subtopics),
    sourcesEvaluated |-> totalSources(run.searchResults[1]) ]

completed(c) ==
  LET c1 == update(c, [status |-> "completed", progress |-> 100,
                       currentPhase |-> "Complete",
                       metadata |-> Some(jobMetadata(c.run))])
      c2 == sendProgress(c1, "Complete", 100, <<"Research completed successfully">>)
      ev == Event("success", "", -1, Some(jobMetadata(c.run)), c.run.sid)
      c3 == [c2 EXCEPT !.run = enqueue(@, ev)]
  IN [ c3 EXCEPT !.run.closed = TRUE, !.run.pc = "done" ]

SaveDone(r) ==
  /\ runs[r].pc = "save"
  /\ Step(completed(RunContext(r)), r)

\* Variant of heartbeat in which the evaluation's interval reports the
\* progress of the filtering interval (route.ts 96-98).
heartbeatAhead(c) ==
  CASE c.run.timer = "search" ->
         sendProgress(c, "Searching for information", 25, <<"Searching web sources...">>)
    [] c.run.timer = "eval" ->
         sendProgress(c, "Evaluating sources", 60, <<"Filtering high-quality content...">>)
    [] c.run.timer = "synth" ->
         sendProgress(c, "Generating research report", 75, <<"Writing comprehensive report...">>)
    [] OTHER -> c

\* Variant of heartbeat in which every interval reports the search's progress.
heartbeatOfSearch(c) ==
  IF c.run.timer = "none" THEN c
  ELSE sendProgress(c, "Searching for information", 25, <<"Searching web sources...">>)

\* route.ts 61-63, 90-92, 128-130: a heartbeat interval fires
heartbeat(c) ==
  CASE c.run.timer = "search" ->
         sendProgress(c, "Searching for information", 25, <<"Searching web sources...">>)
    [] c.run.timer = "eval" ->
         sendProgress(c, "Evaluating sources", 45, <<"Analyzing source credibility...">>)
    [] c.run.timer = "synth" ->
         sendProgress(c, "Generating research report", 75, <<"Writing comprehensive report...">>)
    [] OTHER -> c

Heartbeat(r) ==
  /\ runs[r].timer # "none"
  /\ SumSeq([i \in RunIds |-> runs[i].beats]) < HeartbeatLimit
  /\ Step([heartbeat(RunContext(r)) EXCEPT !.run.beats = @ + 1], r)

\* The caller stops reading: the stream is cancelled.
Disconnect(r) ==
  /\ runs[r].connected
  /\ ~runs[r].closed
  /\ Cardinality({ i \in RunIds : ~runs[i].connected }) < DisconnectLimit
  /\ runs' = [runs EXCEPT ![r].connected = FALSE]
  /\ response' = NoResponse
  /\ UNCHANGED << objects, mapKeys, now, apiKey, scenario, agents >>

\* The clock advances, one resume window at a time.
Tick ==
  /\ now < TickLimit * ResumeWindowHours
  /\ now' = now + ResumeWindowHours
  /\ response' = NoResponse
  /\ UNCHANGED << objects, mapKeys, runs, apiKey, scenario, agents >>

Next ==
  \/ \E question \in Questions, sessionId \in 0..MaxSessions, resume \in BOOLEAN :
       POST(question, sessionId, resume)
  \/ \E sessionId \in 0..MaxSessions : PUT(sessionId)
  \/ \E sessionId \in 0..MaxSessions : DELETE(sessionId)
  \/ \E r \in RunIds : Begin(r)
  \/ \E r \in RunIds : PlanDone(r)
  \/ \E r \in RunIds : SearchDone(r)
  \/ \E r \in RunIds : SearchFail(r)
  \/ \E r \in RunIds : EvalDone(r)
  \/ \E r \in RunIds : SynthDone(r)
  \/ \E r \in RunIds : SaveDone(r)
  \/ \E r \in RunIds : Heartbeat(r)
  \/ \E r \in RunIds : Disconnect(r)
  \/ Tick

Spec == Init /\ [][Next]_vars

\* ------------------------------------------------------------------------
\* The Plan phase of one job against a completion API whose answer for each
\* model is fixed: which fallback models the planner passes, and what the API
\* answers, are drawn at the start.
\* ------------------------------------------------------------------------
FallbackLists ==
  LET all == getFallbackModels(getModelForTask("planning"))
  IN { SubSeq(all, 1, n) : n \in 0..Len(all) }

InitChat ==
  /\ objects = << >>
  /\ mapKeys = {}
  /\ runs = << >>
  /\ now = 0
  /\ apiKey = TRUE
  /\ response = NoResponse
  /\ scenario = "stream"
  /\ search = noSearch
  /\ evaluation = noEvaluation
  /\ planning = noPlanning
  /\ \E fallbackModels \in FallbackLists :
       \E gateway \in [1..(Len(fallbackModels) + 1) -> GatewayOutcomes] :
         chat = startChat(getModelForTask("planning"), fallbackModels, gateway)

ChatStep(ch) ==
  /\ chat' = ch
  /\ UNCHANGED << pipeline, search, evaluation, planning >>

ChatIteration ==
  /\ chat.pc = "loop"
  /\ ChatStep(chatIteration(chat))

PlanTracked ==
  /\ chat.pc \in {"returned", "threw"}
  /\ ChatStep(planTracked(chat))

NextChat == ChatIteration \/ PlanTracked

SpecChat == InitChat /\ [][NextChat]_vars

\* ------------------------------------------------------------------------
\* One call of searchAllSubtopics: the subtopics are drawn at the start, and
\* each backend answers when it is called.
\* ------------------------------------------------------------------------
SubtopicLists ==
  { << >>, << "t1" >>, << "t1", "t2", "t3" >>, << "t1", NonString, "t3" >> }

InitSearch ==
  /\ objects = << >>
  /\ mapKeys = {}
  /\ runs = << >>
  /\ now = 0
  /\ apiKey = TRUE
  /\ response = NoResponse
  /\ scenario = "stream"
  /\ chat = noChat
  /\ evaluation = noEvaluation
  /\ planning = noPlanning
  /\ \E subtopics \in SubtopicLists : search = startSearch(subtopics)

SearchStep(s) ==
  /\ search' = s
  /\ UNCHANGED << pipeline, chat, evaluation, planning >>

SearchIteration ==
  /\ search.pc = "loop"
  /\ search.i < Len(search.subtopics)
  /\ \E answers \in BackendAnswers : SearchStep(searchIteration(search, answers))

\* searcher.ts 269: return results
SearchReturns ==
  /\ search.pc = "loop"
  /\ search.i = Len(search.subtopics)
  /\ SearchStep([search EXCEPT !.pc = "returned"])

NextSearch == SearchIteration \/ SearchReturns

SpecSearch == InitSearch /\ [][NextSearch]_vars

\* ------------------------------------------------------------------------
\* One call of evaluateSearchResults, explored on its own
\* ------------------------------------------------------------------------
\* Search results of n sources for a subtopic, as searchSubtopic returns
\* them: at most 5, here of varied hosts.
SourcesOf(n) ==
  [ k \in 1..n |->
      Source(k, CASE k = 1 -> "high" [] k = 2 -> "com" [] OTHER -> "other",
             k % 3, 2) ]

EvalEntry(subtopic, n) == [ subtopic |-> subtopic, results |-> SourcesOf(n) ]

SourceCounts == {0, 1, 5}

EvalInputs ==
  { << >> }
    \cup { << EvalEntry("t1", a) >> : a \in SourceCounts }
    \cup { << EvalEntry("t1", a), EvalEntry("t2", b) >> : a, b \in SourceCounts }

\* What evaluateBatch's chatWithFallback call can come back with for a
\* batch of n sources: a failure, an answer without a JSON array, or an
\* array of 0 to n + 1 elements.
BatchAnswers(n) ==
  { [ok |-> FALSE, content |-> Undefined], [ok |-> TRUE, content |-> Undefined] }
    \cup { [ok |-> TRUE, content |-> Some([ k \in 1..m |-> item ])] :
             m \in 0..(n + 1), item \in ReplyItems }

InitEval ==
  /\ objects = << >>
  /\ mapKeys = {}
  /\ runs = << >>
  /\ now = 0
  /\ apiKey = TRUE
  /\ response = NoResponse
  /\ scenario = "stream"
  /\ chat = noChat
  /\ search = noSearch
  /\ planning = noPlanning
  /\ \E searchResults \in EvalInputs, researchMode \in {"normal", "max"} :
       evaluation = startEvaluation(searchResults, researchMode)

EvalStep(e) ==
  /\ evaluation' = e
  /\ UNCHANGED << pipeline, chat, search, planning >>

EvaluateBatch ==
  /\ evaluation.pc = "loop"
  /\ evaluation.s < Len(evaluation.searchResults)
  /\ LET limited == limitedResults(evaluation.searchResults[evaluation.s + 1],
                                   evaluation.researchMode)
     IN /\ evaluation.i < Len(limited)
        /\ \E answer \in BatchAnswers(Len(batchAt(limited, evaluation.i))) :
             EvalStep(evaluateBatchStep(evaluation, answer))

EvaluateSubtopicReturns ==
  /\ evaluation.pc = "loop"
  /\ evaluation.s < Len(evaluation.searchResults)
  /\ evaluation.i >= Len(limitedResults(evaluation.searchResults[evaluation.s + 1],
                                        evaluation.researchMode))
  /\ EvalStep(evaluateSubtopicReturns(evaluation))

\* evaluator.ts 54: return results
EvaluationReturns ==
  /\ evaluation.pc = "loop"
  /\ evaluation.s = Len(evaluation.searchResults)
  /\ EvalStep([ evaluation EXCEPT !.pc = "returned" ])

\* Threshold pairs (minRelevance, minCredibility) handed to the filter; the
\* first is the default pair of evaluator.ts 405-406.
FilterThresholds == { << 5, 4 >>, << 0, 0 >>, << 8, 8 >>, << 11, 0 >> }

\* evaluator.ts 403-414 applied to the returned results (route.ts 101
\* calls it with the pair 5, 4)
FilterHighQuality ==
  /\ evaluation.pc = "returned"
  /\ evaluation.highQualityResults = Undefined
  /\ \E th \in FilterThresholds :
       EvalStep([ evaluation EXCEPT !.highQualityResults =
         Some([ minRelevance |-> th[1], minCredibility |-> th[2],
                results |-> filterHighQualityContent(evaluation.results,
                                                     th[1], th[2]) ]) ])

NextEval ==
  EvaluateBatch \/ EvaluateSubtopicReturns \/ EvaluationReturns \/ FilterHighQuality

SpecEval == InitEval /\ [][NextEval]_vars

\* ------------------------------------------------------------------------
\* The hourly sweep of the session store, explored on its own
\* ------------------------------------------------------------------------
\* research-session.ts 92: the retention window, in hours
RetentionHours == 24

\* The clock of the sweep's exploration advances by half a window.
SweepTick == 12
MaxSweepTicks == 4

\* Variant of the sweep's test that spares sessions that are not terminal.
sweepableWhenTerminal(session, t) ==
  session.updatedAt < t - RetentionHours /\ session.status \in Terminal

\* research-session.ts 96-99: 'active' is not a status a session can have
sweepable(session, t) ==
  session.updatedAt < t - RetentionHours /\ session.status # "active"

\* research-session.ts 91-108
cleanupOldSessions(st, t) ==
  LET sessionsToDelete == { id \in st.keys : sweepable(st.objs[id], t) }
  IN [ objs |-> [ id \in DOMAIN st.objs |->
                    IF id \in sessionsToDelete THEN orphan(st.objs[id]) ELSE st.objs[id] ],
       keys |-> st.keys \ sessionsToDelete ]

\* The store as loadSessions finds it: two sessions written at hour 0, of
\* any status.
InitSweep ==
  /\ \E status1, status2 \in { StatusOrder[k] : k \in 1..Len(StatusOrder) } \cup {"failed"} :
       objects = << [ newSession(1, "q1", 0) EXCEPT !.status = status1 ],
                    [ newSession(2, "q2", 0) EXCEPT !.status = status2 ] >>
  /\ mapKeys = {1, 2}
  /\ runs = << >>
  /\ now = 0
  /\ apiKey = TRUE
  /\ response = NoResponse
  /\ scenario = "sessions"
  /\ chat = noChat
  /\ search = noSearch
  /\ evaluation = noEvaluation
  /\ planning = noPlanning

StoreStep(st) ==
  /\ objects' = st.objs
  /\ mapKeys' = st.keys
  /\ UNCHANGED << runs, apiKey, response, scenario, agents >>

\* research-session.ts 64: the hourly interval fires
Sweep ==
  /\ StoreStep(cleanupOldSessions(TheStore, now))
  /\ UNCHANGED now

\* A run writes a progress tick to a session that is not terminal.
Touch(id) ==
  /\ id \in mapKeys
  /\ objects[id].status \notin Terminal
  /\ StoreStep(updateSession(TheStore, id, [progress |-> 10], now))
  /\ UNCHANGED now

SweepClock ==
  /\ now < MaxSweepTicks * SweepTick
  /\ now' = now + SweepTick
  /\ UNCHANGED << objects, mapKeys, runs, apiKey, response, scenario, agents >>

NextSweep == Sweep \/ (\E id \in 1..2 : Touch(id)) \/ SweepClock

SpecSweep == InitSweep /\ [][NextSweep]_vars

\* ------------------------------------------------------------------------
\* One call of planResearch, explored on its own
\* ------------------------------------------------------------------------
MaxKeyWords == 5
MaxReplySubtopics == 9

SubtopicArrays ==
  { [ k \in 1..n |-> << "t", k >> ] : n \in 0..MaxReplySubtopics }

PlanAnswers ==
  { [ok |-> FALSE, content |-> Undefined],
    [ok |-> TRUE, content |-> Undefined],
    [ok |-> TRUE, content |-> PlanContent(Undefined)] }
    \cup { [ok |-> TRUE, content |-> PlanContent(Some(subtopics))] :
             subtopics \in SubtopicArrays }

InitPlan ==
  /\ objects = << >>
  /\ mapKeys = {}
  /\ runs = << >>
  /\ now = 0
  /\ apiKey = TRUE
  /\ response = NoResponse
  /\ scenario = "stream"
  /\ chat = noChat
  /\ search = noSearch
  /\ evaluation = noEvaluation
  /\ \E keyWords \in 0..MaxKeyWords, answer \in PlanAnswers :
       planning = startPlanning(keyWords, answer)

PlanStep(result) ==
  /\ planning' = [ planning EXCEPT !.pc = "returned", !.result = Some(result) ]
  /\ UNCHANGED << pipeline, chat, search, evaluation >>

\* models.ts 281: chatWithFallback resolved
PlanParses ==
  /\ planning.pc = "chat"
  /\ planning.answer.ok
  /\ PlanStep(planResearch(planning.keyWords, planning.answer))

\* models.ts 282-286: chatWithFallback rejected
PlanFallsBack ==
  /\ planning.pc = "chat"
  /\ ~planning.answer.ok
  /\ PlanStep(planResearch(planning.keyWords, planning.answer))

NextPlan == PlanParses \/ PlanFallsBack

SpecPlan == InitPlan /\ [][NextPlan]_vars

\* ------------------------------------------------------------------------
\* Properties
\* ------------------------------------------------------------------------
StoredIds == mapKeys \cap mapKeys'

ValidQuestions == { q \in Questions : QuestionLength(q) >= MinQuestionLength }

StatusIndex(status) == CHOOSE k \in 1..Len(StatusOrder) : StatusOrder[k] = status

Forward(from, to) ==
  IF to = "failed"
  THEN from \notin Terminal
  ELSE from # "failed" /\ StatusIndex(from) < StatusIndex(to)

IsTerminalEvent(entry) == entry.event.kind \in {"success", "error"}

IsDeliveredProgress(entry) == entry.event.kind = "progress" /\ entry.delivered

TerminalAt(r) == { k \in 1..Len(runs[r].stream) : IsTerminalEvent(runs[r].stream[k]) }

HasProgress(run, phase) ==
  \E k \in 1..Len(run.stream) :
    /\ run.stream[k].event.kind = "progress"
    /\ run.stream[k].event.phase = phase
    /\ run.stream[k].delivered

Emitted(run, phase) ==
  \E k \in 1..Len(run.stream) :
    run.stream[k].event.kind = "progress" /\ run.stream[k].event.phase = phase

\* C1: a result slot of a stored session, once non-empty, is never changed or
\* cleared while the session stays in the store, whatever runs act on it.
C1_SlotsNeverOverwritten ==
  [][ \A i \in StoredIds : \A f \in Slots :
        objects[i][f] # Undefined => objects'[i][f] = objects[i][f] ]_vars

\* C2: a run that found planningResult and searchResults populated never calls
\* the Plan or the Search executor; if evaluationResults was empty the first
\* executor it calls is Evaluate; and it emits the "Resuming from" event of
\* each of the two skipped phases.
C2_PopulatedPhasesSkipped ==
  \A r \in RunIds :
    {"planningResult", "searchResults"} \subseteq runs[r].cached =>
      /\ \A k \in 1..Len(runs[r].calls) : runs[r].calls[k] \notin {"plan", "search"}
      /\ "evaluationResults" \notin runs[r].cached =>
           runs[r].calls # << >> /\ runs[r].calls[1] = "evaluate"
      /\ Emitted(runs[r], "Resuming from planning phase")
      /\ Emitted(runs[r], "Resuming from search phase")
      /\ runs[r].connected =>
           /\ HasProgress(runs[r], "Resuming from planning phase")
           /\ HasProgress(runs[r], "Resuming from search phase")

C2_Witness ==
  \E r \in RunIds :
    /\ runs[r].cached = {"planningResult", "searchResults"}
    /\ runs[r].calls = << "evaluate" >>
    /\ HasProgress(runs[r], "Resuming from search phase")

\* C3: when a run fails the session keeps the results persisted so far, and a
\* later resume request (resume flag with the session's id) for that failed
\* session is accepted: it answers with a stream and starts a run.
C3_FailedSessionResumes ==
  [][ \A i \in StoredIds :
        /\ (objects[i].status # "failed" /\ objects'[i].status = "failed") =>
             \A f \in Slots : objects'[i][f] = objects[i][f]
        /\ \A q \in ValidQuestions :
             ( /\ objects[i].status = "failed"
               /\ \E f \in Slots : objects[i][f] # Undefined
               /\ apiKey
               /\ POST(q, i, TRUE) ) =>
             /\ response'.kind = "stream"
             /\ Len(runs') = Len(runs) + 1 ]_vars

\* C4: the status of a stored session only moves forward in the order pending,
\* planning, searching, evaluating, synthesizing, completed, or to failed from
\* a status that is not terminal.
C4_StatusOnlyForward ==
  [][ \A i \in StoredIds :
        objects'[i].status # objects[i].status =>
          Forward(objects[i].status, objects'[i].status) ]_vars

\* C5: in every state of the store, a session whose progress is 100 has
\* status completed.
C5_FullProgressIsCompleted ==
  \A i \in mapKeys : objects[i].progress = 100 => objects[i].status = "completed"

\* C6: the progress of a stored session never decreases, and neither do the
\* progress values delivered to callers for one session, across its runs.
C6_ProgressNeverDecreases ==
  [][ /\ \A i \in StoredIds : objects'[i].progress >= objects[i].progress
      /\ \A r \in 1..Len(runs') :
           LET before == IF r <= Len(runs) THEN Len(runs[r].stream) ELSE 0
               after == runs'[r].stream
           IN \A k \in (before + 1)..Len(after) :
                IsDeliveredProgress(after[k]) =>
                  /\ \A j \in 1..(k - 1) :
                       IsDeliveredProgress(after[j]) =>
                         after[j].event.progress <= after[k].event.progress
                  /\ \A r2 \in RunIds \ {r} :
                       runs[r2].sid = runs'[r].sid =>
                         \A j \in 1..Len(runs[r2].stream) :
                           IsDeliveredProgress(runs[r2].stream[j]) =>
                             runs[r2].stream[j].event.progress <= after[k].event.progress
    ]_vars

\* C7: a run emits at most one terminal event (success or error) and a run
\* that has ended has emitted exactly one; the stream is closed in the step
\* that emits it, and no event is delivered after it.
C7_OneTerminalEventThenClosed ==
  \A r \in RunIds :
    /\ Cardinality(TerminalAt(r)) <= 1
    /\ runs[r].pc = "done" <=> Cardinality(TerminalAt(r)) = 1
    /\ runs[r].closed <=> TerminalAt(r) # {}
    /\ \A k \in TerminalAt(r) :
         \A j \in (k + 1)..Len(runs[r].stream) : ~runs[r].stream[j].delivered

C7_Witness ==
  \E r \in RunIds :
    /\ runs[r].pc = "done"
    /\ \E k \in TerminalAt(r) : k < Len(runs[r].stream)

\* C8: a submission without a session id, for a question equal to that of a
\* stored session that is not terminal and was created less than two hours
\* ago, is answered with a resumable notice carrying such a session's id,
\* progress and phase; it creates no session, starts no run and changes no
\* session.
C8_ResumableNoticeOnly ==
  [][ \A q \in Questions, resume \in BOOLEAN :
        ( /\ POST(q, 0, resume)
          /\ \E i \in mapKeys :
               /\ objects[i].question = q
               /\ objects[i].status \notin Terminal
               /\ now - objects[i].createdAt < ResumeWindowHours ) =>
        /\ \E i \in mapKeys :
             /\ objects[i].question = q
             /\ objects[i].status \notin Terminal
             /\ now - objects[i].createdAt < ResumeWindowHours
             /\ response' = Respond("resumeAvailable", 200, i,
                                    objects[i].progress, objects[i].currentPhase)
        /\ UNCHANGED << objects, mapKeys, runs >> ]_vars

C8_Witness ==
  /\ response.kind = "resumeAvailable"
  /\ response.sessionId \in mapKeys
  /\ objects[response.sessionId].status \notin Terminal
  /\ response.existingProgress = objects[response.sessionId].progress

\* The case of C9 and C10: the primary model is rate-limited (HTTP 429) and the
\* first fallback model answers.
PrimaryLimitedFallbackServes ==
  /\ Len(chat.models) >= 2
  /\ chat.gateway[1].status = 429
  /\ chat.gateway[2].status = 200

\* C9: chatWithFallback calls the models in list order, each at most once and
\* none after the first success; when the primary is rate-limited and the
\* first fallback succeeds it returns the first fallback's response.
C9_FirstFallbackResponse ==
  /\ chat.called = SubSeq(chat.models, 1, Len(chat.called))
  /\ \A k \in 1..(Len(chat.called) - 1) : chat.gateway[k].status # 200
  /\ chat.pc # "loop" => Len(chat.called) = chat.i + 1
  /\ PrimaryLimitedFallbackServes =>
       /\ chat.pc # "threw"
       /\ chat.pc # "loop" =>
            /\ chat.response = Some([model |-> chat.models[2]])
            /\ chat.called = << chat.models[1], chat.models[2] >>

C9_Witness ==
  /\ PrimaryLimitedFallbackServes
  /\ chat.pc = "returned"
  /\ chat.response = Some([model |-> FALLBACK_MODELS[1]])

\* C10: when the primary is rate-limited and the first fallback serves the
\* call, the job's usage tracker holds usage for the fallback model only.
C10_UsageAgainstFallbackOnly ==
  (PrimaryLimitedFallbackServes /\ chat.pc = "tracked") =>
    getTotalUsage(chat.usage).modelsUsed = { chat.models[2] }

\* C11: when a model call fails with an error of another class than rate
\* limit (HTTP status other than 429: auth, credit, other), chatWithFallback
\* fails at once with that error and calls no further model.
C11_OtherErrorsAbort ==
  \A k \in 1..Len(chat.called) :
    chat.gateway[k].status \notin {200, 429} =>
      /\ Len(chat.called) = k
      /\ chat.pc # "loop"
      /\ chat.error = Some(chatError(chat.gateway[k]))

\* C12: when every model of the list answers with a rate-limit error,
\* chatWithFallback fails with the error 'All models failed'.
C12_AllModelsFailed ==
  ( /\ \A k \in 1..Len(chat.models) : chat.gateway[k].status = 429
    /\ chat.pc \in {"threw", "tracked"} ) =>
  chat.error = Some(<< "All models failed" >>)

AllStrings(subtopics) == \A i \in 1..Len(subtopics) : subtopics[i] # NonString

\* The results of the first backend, in calling order, that had any.
FirstResults(answersAsked) ==
  LET last == answersAsked[Len(answersAsked)]
  IN IF Len(answersAsked) = 3 THEN perplexitySearch(last) ELSE tavilySearch(last)

C14_NoPlaceholderData ==
  \A i \in 1..Len(search.results) :
    \A k \in 1..Len(search.results[i].results) :
      /\ search.results[i].results[k].url # << "https://example.com" >>
      /\ search.results[i].results[k].snippet # << "No description available" >>

EmittedKind(run, kind) ==
  \E k \in 1..Len(run.stream) : run.stream[k].event.kind = kind

\* C15: a run whose Search phase came back with no result at all (every
\* entry empty) never emits the success event, and when it has ended it has
\* emitted the error event.
C15_NoResultsFailsRun ==
  \A r \in RunIds :
    ( /\ \E k \in 1..Len(runs[r].calls) : runs[r].calls[k] = "search"
      /\ runs[r].searchResults # Undefined
      /\ totalSources(runs[r].searchResults[1]) = 0 ) =>
    /\ ~EmittedKind(runs[r], "success")
    /\ runs[r].pc = "done" => EmittedKind(runs[r], "error")

\* The evaluated records of the call: those of the results pushed so far
\* and those of the subtopic in progress.
EvaluatedRecords ==
  { evaluation.evaluatedContent[k] : k \in 1..Len(evaluation.evaluatedContent) }
    \cup UNION { { evaluation.results[r].evaluatedContent[k] :
                     k \in 1..Len(evaluation.results[r].evaluatedContent) } :
                 r \in 1..Len(evaluation.results) }

\* C16: when the batch evaluation of a group of sources throws, each source
\* of that group still gets an evaluated record, with both scores in 0..10,
\* in the result of its subtopic.
C16_ThrownBatchStillEvaluated ==
  \A t \in 1..Len(evaluation.thrown) :
    LET thrown == evaluation.thrown[t]
    IN thrown.s <= Len(evaluation.results) =>
         \A b \in 1..Len(thrown.batch) :
           \E k \in 1..Len(evaluation.results[thrown.s].evaluatedContent) :
             LET record == evaluation.results[thrown.s].evaluatedContent[k]
             IN /\ record.url = thrown.batch[b].url
                /\ record.relevanceScore \in 0..10
                /\ record.credibilityScore \in 0..10

InRange(record) ==
  /\ record.relevanceScore \in 0..10
  /\ record.credibilityScore \in 0..10

NotNumeric(score) == score.kind \in {"text", "missing"}

\* The sources and subtopic word counts the two lower tiers are tried on.
TierSources ==
  { Source(1, domain, 0, 1) : domain \in Domains }
    \cup { Source(1, "com", matchCount, 3) : matchCount \in 0..3 }
    \cup { Source(1, "com", 1, wordCount) : wordCount \in 1..2 }

\* C17: every relevanceScore and credibilityScore of an evaluated record is
\* in 0..10, whether the record comes from the batch answer, from the
\* individual answer or from the heuristic, and a score that the model
\* wrote as something non-numeric, or left out, becomes 5.
C17_ScoresInRange ==
  /\ \A record \in EvaluatedRecords :
       /\ InRange(record)
       /\ record.item # Undefined =>
            /\ NotNumeric(record.item[1].relevanceScore) => record.relevanceScore = 5
            /\ NotNumeric(record.item[1].credibilityScore) => record.credibilityScore = 5
  /\ \A score \in RawScores :
       /\ validateScore(score) \in 0..10
       /\ NotNumeric(score) => validateScore(score) = 5
  /\ \A searchResult \in TierSources, answer \in IndividualAnswers,
        subtopic \in {"", "t1"} :
       /\ InRange(evaluateWithModel(searchResult, answer, subtopic))
       /\ InRange(createFallbackEvaluation(searchResult, subtopic))

\* A returned call holds a record whose model scores were out of range and a
\* record whose model scores were not numbers.
C17_Witness ==
  /\ evaluation.pc = "returned"
  /\ \E record \in EvaluatedRecords :
       /\ record.item # Undefined
       /\ record.item[1].relevanceScore = RawScore("number", -2)
       /\ record.item[1].credibilityScore = RawScore("number", 12)
       /\ record.relevanceScore = 0
       /\ record.credibilityScore = 10
  /\ \E record \in EvaluatedRecords :
       /\ record.item # Undefined
       /\ NotNumeric(record.item[1].relevanceScore)
       /\ NotNumeric(record.item[1].credibilityScore)

\* C18: evaluateSearchResults never throws: it returns one result per
\* search-result entry, in the order of the entries, whatever happens
\* while a subtopic is evaluated.
C18_OneResultPerEntry ==
  /\ evaluation.pc # "threw"
  /\ Len(evaluation.results) = evaluation.s
  /\ evaluation.s <= Len(evaluation.searchResults)
  /\ \A r \in 1..Len(evaluation.results) :
       evaluation.results[r].subtopic = evaluation.searchResults[r].subtopic
  /\ evaluation.pc = "returned" =>
       Len(evaluation.results) = Len(evaluation.searchResults)

\* A call returned two results although the evaluation of its first
\* subtopic threw.
C18_Witness ==
  /\ evaluation.pc = "returned"
  /\ Len(evaluation.results) = 2
  /\ \E t \in 1..Len(evaluation.thrown) : evaluation.thrown[t].s = 1
  /\ evaluation.results[1].totalSources = 0
  /\ evaluation.results[2].totalSources > 0

\* The error events a run has tried to send.
ErrorMessages(r) ==
  { runs[r].stream[k].event.details :
      k \in { j \in 1..Len(runs[r].stream) : runs[r].stream[j].event.kind = "error" } }

\* C19: synthesizeReport returns a result for every input, the template
\* report with modelUsed "fallback" when the completion fails on every
\* model, so no run fails because of the synthesis: a run that is past its
\* synthesis holds a synthesis result and no run reports a synthesis error.
C19_SynthesisNeverFailsRun ==
  /\ \A answered \in BOOLEAN, r \in RunIds :
       runs[r].evaluationResults # Undefined =>
         LET synthesisResult == synthesizeReport(answered, synthesisInput(runs[r]))
         IN /\ synthesisResult # Undefined
            /\ ~answered => synthesisResult[1].modelUsed = "fallback"
  /\ \A r \in RunIds :
       /\ runs[r].pc = "save" => runs[r].synthesisResult # Undefined
       /\ << "SynthesisError" >> \notin ErrorMessages(r)

\* A run whose synthesis fell back to the template report has completed.
C19_Witness ==
  \E r \in RunIds :
    /\ runs[r].pc = "done"
    /\ runs[r].synthesisResult # Undefined
    /\ runs[r].synthesisResult[1].modelUsed = "fallback"
    /\ EmittedKind(runs[r], "success")
    /\ ErrorMessages(r) = {}

\* C20: in the synthesis prompt no two evaluated sources, of one subtopic or
\* of two, get the same citation number, for the evaluation results of
\* normal and of max mode.
C20_CitationNumbersDistinct ==
  LET numbers == formatResearchData(evaluation.results)
  IN \A r1, r2 \in 1..Len(numbers) :
       \A k1 \in 1..Len(numbers[r1]), k2 \in 1..Len(numbers[r2]) :
         numbers[r1][k1] = numbers[r2][k2] => (r1 = r2 /\ k1 = k2)

\* A max-mode call returned two results of five evaluated sources each, the
\* most a subtopic's search hands over.
C20_Witness ==
  /\ evaluation.pc = "returned"
  /\ evaluation.researchMode = "max"
  /\ Len(evaluation.results) = 2
  /\ \A r \in 1..2 : evaluation.results[r].totalSources = 5

\* C21: when the caller has disconnected, so that delivering events fails,
\* the run still goes through every remaining phase, each phase result it
\* computes is persisted in the step that computes it, and a run that ends
\* without an error leaves its session completed with every result stored.
C21_DisconnectedRunCompletes ==
  [][ \A r \in RunIds :
        LET sid == runs[r].sid
        IN ( /\ ~runs[r].connected
             /\ runs'[r] # runs[r]
             /\ sid \in mapKeys' ) =>
           /\ \A f \in Slots :
                runs'[r][f] # runs[r][f] => objects'[sid][f] = runs'[r][f]
           /\ (runs'[r].pc = "done" /\ ~EmittedKind(runs'[r], "error")) =>
                /\ objects'[sid].status = "completed"
                /\ \A f \in Slots : objects'[sid][f] # Undefined
                /\ \A f \in Slots \ runs'[r].cached : runs'[r][f] # Undefined ]_vars

\* A run whose caller left before the plan was made has ended, no event after
\* the first was delivered, and its session is completed.
C21_Witness ==
  \E r \in RunIds :
    /\ runs[r].pc = "done"
    /\ ~runs[r].connected
    /\ runs[r].calls = << "plan", "search", "evaluate", "synthesize" >>
    /\ \A k \in 2..Len(runs[r].stream) : ~runs[r].stream[k].delivered
    /\ runs[r].sid \in mapKeys
    /\ objects[runs[r].sid].status = "completed"

\* C22: for runs on sessions with different ids, every event of a run's
\* stream carries the run's own session id, and a step of a run (its start
\* included) changes no field of a stored session other than its own.
C22_RunsKeepToTheirSession ==
  [][ \A r \in 1..Len(runs') :
        /\ \A k \in 1..Len(runs'[r].stream) :
             runs'[r].stream[k].event.sessionId = runs'[r].sid
        /\ (r > Len(runs) \/ runs'[r] # runs[r]) =>
             \A i \in StoredIds : i # runs'[r].sid => objects'[i] = objects[i] ]_vars

\* Two runs on different sessions are both under way, each with a phase
\* result persisted in its own session.
C22_Witness ==
  \E r1, r2 \in RunIds :
    /\ runs[r1].sid # runs[r2].sid
    /\ runs[r1].pc \notin {"init", "done"}
    /\ runs[r2].pc \notin {"init", "done"}
    /\ \A r \in {r1, r2} :
         /\ runs[r].sid \in mapKeys
         /\ runs[r].planningResult # Undefined
         /\ objects[runs[r].sid].planningResult = runs[r].planningResult

\* C23: at no time are two runs executing against the same session id: a
\* submit or resume request for a session whose run is still in progress
\* starts no second run on it.
C23_OneRunPerSession ==
  \A r1, r2 \in RunIds :
    ( /\ r1 # r2
      /\ runs[r1].sid = runs[r2].sid ) =>
    (runs[r1].pc = "done" \/ runs[r2].pc = "done")

\* The phase whose awaited call a heartbeat interval accompanies.
TimerPhase(timer) ==
  CASE timer = "search" -> "search"
    [] timer = "eval" -> "evaluate"
    [] timer = "synth" -> "synthesize"
    [] OTHER -> "none"

\* C24: a heartbeat interval is set only while the call of its phase is
\* pending: once the call has settled, resolved or rejected, the interval
\* is cleared, no heartbeat callback runs afterwards, and no interval is
\* left set after the terminal event of the run.
C24_HeartbeatCancelledOnSettle ==
  [][ \A r \in RunIds :
        /\ runs'[r].timer # "none" => runs'[r].pc = TimerPhase(runs'[r].timer)
        /\ runs'[r].pc = "done" => runs'[r].timer = "none"
        /\ runs'[r].beats > runs[r].beats => runs[r].pc = TimerPhase(runs[r].timer) ]_vars

\* C25: the sweep deletes a session only if its status is completed or
\* failed and its updatedAt is older than the retention window; a session
\* whose status is not terminal is never removed by it.
C25_SweepOnlyTerminal ==
  [][ \A id \in mapKeys \ mapKeys' :
        /\ objects[id].status \in Terminal
        /\ objects[id].updatedAt < now - RetentionHours ]_vars

\* C26: every PlanningResult that planResearch returns, parsed from the
\* model's answer or made by the fallback plan, has between 3 and 7
\* subtopics.
C26_ThreeToSevenSubtopics ==
  planning.pc = "returned" => Len(planning.result[1].subtopics) \in 3..7

\* C27: at completion of a run the session's metadata.subtopicsInvestigated
\* is the number of planning subtopics and its metadata.sourcesEvaluated is
\* the number of evaluated-source records in the session's evaluationResults.
C27_MetadataCounts ==
  [][ \A r \in RunIds :
        LET sid == runs[r].sid
        IN ( /\ runs[r].pc = "save"
             /\ runs'[r].pc = "done"
             /\ sid \in mapKeys' ) =>
           /\ objects'[sid].metadata # Undefined
           /\ objects'[sid].metadata[1].subtopicsInvestigated =
                Len(objects'[sid].planningResult[1].subtopics)
           /\ objects'[sid].metadata[1].sourcesEvaluated =
                evaluatedCount(objects'[sid].evaluationResults[1]) ]_vars

\* C28: once the status of a stored session is completed or failed, no
\* later request (submit, resume or status) and no step that follows from
\* one changes it; only deletion ends the session.
C28_TerminalStatusStays ==
  [][ \A i \in StoredIds :
        objects[i].status \in Terminal => objects'[i].status = objects[i].status ]_vars

\* The positions of the progress events that a step appends to the stream
\* of run r.
NewProgress(r) ==
  { k \in ((IF r <= Len(runs) THEN Len(runs[r].stream) ELSE 0) + 1)..Len(runs'[r].stream) :
      runs'[r].stream[k].event.kind = "progress" }

\* C29: every progress event of a run writes its progress, phase and details
\* to the run's session in the store, also when the event cannot be
\* delivered because the caller is no longer connected: after a step that
\* emits progress events, the stored session shows the last of them.
C29_ProgressAlwaysStored ==
  [][ \A r \in 1..Len(runs') :
        (NewProgress(r) # {} /\ runs'[r].sid \in mapKeys') =>
          LET last == CHOOSE k \in NewProgress(r) : \A j \in NewProgress(r) : j <= k
              event == runs'[r].stream[last].event
              session == objects'[runs'[r].sid]
          IN /\ session.progress = event.progress
             /\ session.currentPhase = event.phase
             /\ session.details = event.details ]_vars

\* The progress values of the events run r has emitted, in order.
ProgressValues(r) ==
  LET at == SelectSeq([ k \in 1..Len(runs[r].stream) |-> runs[r].stream[k].event ],
                      LAMBDA event : event.kind = "progress")
  IN [ k \in 1..Len(at) |-> at[k].progress ]

\* C30: within one run, fresh or resumed, the progress values of the events
\* it emits, heartbeats included, never decrease: they start at 0, stay
\* within 0..100, and a run that ends with the success event has reached 100.
C30_RunProgressNonDecreasing ==
  \A r \in RunIds :
    LET values == ProgressValues(r)
    IN /\ values # << >> /\ values[1] = 0
       /\ \A k \in 1..Len(values) : values[k] \in 0..100
       /\ \A j, k \in 1..Len(values) : j < k => values[j] <= values[k]
       /\ EmittedKind(runs[r], "success") => values[Len(values)] = 100

\* A run during one of whose phases a heartbeat fired has ended with the
\* success event.
C30_Witness ==
  \E r \in RunIds :
    /\ EmittedKind(runs[r], "success")
    /\ runs[r].beats > 0
    /\ Len(ProgressValues(r)) > Len(runs[r].calls) + 4

\* The events that announce the start of a phase with a heartbeat carry no
\* details; the heartbeats of the phase carry its name and details.
HeartbeatPhases ==
  {"Searching for information", "Evaluating sources", "Generating research report"}

IsHeartbeat(event) ==
  event.kind = "progress" /\ event.phase \in HeartbeatPhases /\ event.details # Undefined

\* C31: every heartbeat event emitted while a phase executes carries the
\* percentage of the event that announced the start of that phase.
C31_HeartbeatKeepsPercentage ==
  \A r \in RunIds :
    \A k \in 1..Len(runs[r].stream) :
      IsHeartbeat(runs[r].stream[k].event) =>
        \E j \in 1..(k - 1) :
          /\ runs[r].stream[j].event.kind = "progress"
          /\ runs[r].stream[j].event.phase = runs[r].stream[k].event.phase
          /\ runs[r].stream[j].event.details = Undefined
          /\ runs[r].stream[j].event.progress = runs[r].stream[k].event.progress

\* A heartbeat of the Evaluate phase was delivered.
C31_Witness ==
  \E r \in RunIds :
    \E k \in 1..Len(runs[r].stream) :
      /\ IsHeartbeat(runs[r].stream[k].event)
      /\ runs[r].stream[k].event.phase = "Evaluating sources"
      /\ runs[r].stream[k].delivered

\* The phases in pipeline order, each with the slot its result is stored in
\* and the event that reports its completion ("" where there is none).
PhaseOrder == << "plan", "search", "evaluate", "synthesize" >>

PhaseSlot(phase) ==
  CASE phase = "plan" -> "planningResult"
    [] phase = "search" -> "searchResults"
    [] phase = "evaluate" -> "evaluationResults"
    [] OTHER -> "synthesisResult"

PhaseComplete(phase) ==
  CASE phase = "plan" -> "Research strategy created"
    [] phase = "search" -> "Sources gathered"
    [] phase = "evaluate" -> "Sources evaluated"
    [] OTHER -> ""

PhaseIndex(phase) == CHOOSE k \in 1..Len(PhaseOrder) : PhaseOrder[k] = phase

\* C32: the phases a run executes run in the order Plan, Search, Evaluate,
\* Synthesize; when a phase starts, the result of the phase before it is in
\* the stored session; and when the event that reports a phase complete is
\* emitted, the stored session holds the result the run computed.
C32_PhasesInOrderAndPersisted ==
  [][ \A r \in RunIds :
        LET run == runs'[r]
            sid == run.sid
            started == Len(runs[r].calls) < Len(run.calls)
            last == run.calls[Len(run.calls)]
        IN run # runs[r] =>
           /\ \A j, k \in 1..Len(run.calls) :
                j < k => PhaseIndex(run.calls[j]) < PhaseIndex(run.calls[k])
           /\ (started /\ sid \in mapKeys' /\ PhaseIndex(last) > 1) =>
                objects'[sid][PhaseSlot(PhaseOrder[PhaseIndex(last) - 1])] # Undefined
           /\ \A k \in 1..Len(PhaseOrder) :
                ( /\ sid \in mapKeys'
                  /\ Emitted(run, PhaseComplete(PhaseOrder[k]))
                  /\ ~Emitted(runs[r], PhaseComplete(PhaseOrder[k])) ) =>
                /\ run[PhaseSlot(PhaseOrder[k])] # Undefined
                /\ objects'[sid][PhaseSlot(PhaseOrder[k])] = run[PhaseSlot(PhaseOrder[k])] ]_vars

\* A run has executed the four phases and has emitted the three events that
\* report a phase complete.
C32_Witness ==
  \E r \in RunIds :
    /\ runs[r].calls = PhaseOrder
    /\ \A k \in 1..3 : Emitted(runs[r], PhaseComplete(PhaseOrder[k]))
    /\ runs[r].sid \in mapKeys
    /\ \A f \in Slots : objects[runs[r].sid][f] # Undefined

\* C33: between two consecutive subtopic searches of a Search phase the
\* politeness delay elapses before the later search starts, also when the
\* earlier search failed: every search that has a successor was followed by
\* the delay.
C33_DelayBetweenSearches ==
  \A k \in 1..Len(search.delayed) :
    k < Len(search.subtopics) => search.delayed[k]

\* ------------------------------------------------------------------------
\* C34: the high-quality filter returns exactly the subtopics that have at
\* least one source meeting both thresholds (relevance >= minRelevance and
\* credibility >= minCredibility), each holding exactly those sources in
\* their original order, and it leaves its input as it was.
\* ------------------------------------------------------------------------
Passes(content, f) ==
  /\ content.relevanceScore >= f.minRelevance
  /\ content.credibilityScore >= f.minCredibility

PassingAt(result, f) ==
  { k \in 1..Len(result.evaluatedContent) : Passes(result.evaluatedContent[k], f) }

KeptSubtopics(results, f) ==
  { r \in 1..Len(results) : PassingAt(results[r], f) # {} }

\* The j-th smallest member of a set of indices
NthOf(S, j) == CHOOSE x \in S : Cardinality({ y \in S : y < x }) = j - 1

FilterOutputExact(results, f) ==
  /\ Len(f.results) = Cardinality(KeptSubtopics(results, f))
  /\ \A j \in 1..Len(f.results) :
       LET in == results[NthOf(KeptSubtopics(results, f), j)]
           out == f.results[j]
           kept == PassingAt(in, f)
       IN /\ out.subtopic = in.subtopic
          /\ Len(out.evaluatedContent) = Cardinality(kept)
          /\ \A k \in 1..Len(out.evaluatedContent) :
               out.evaluatedContent[k] = in.evaluatedContent[NthOf(kept, k)]

C34_FilterKeepsExactlyPassing ==
  [][ (evaluation.highQualityResults = Undefined
        /\ evaluation'.highQualityResults # Undefined) =>
       /\ evaluation'.results = evaluation.results
       /\ FilterOutputExact(evaluation.results, evaluation'.highQualityResults[1]) ]_vars

\* A filter call that dropped a whole subtopic and thinned another one, with
\* a source that met one threshold only.
C34_Witness ==
  /\ evaluation.highQualityResults # Undefined
  /\ LET f == evaluation.highQualityResults[1]
     IN /\ Len(f.results) > 0
        /\ Len(f.results) < Len(evaluation.results)
        /\ \E r \in KeptSubtopics(evaluation.results, f) :
             LET content == evaluation.results[r].evaluatedContent
             IN /\ Cardinality(PassingAt(evaluation.results[r], f)) < Len(content)
                /\ \E k \in 1..Len(content) :
                     /\ content[k].relevanceScore >= f.minRelevance
                     /\ content[k].credibilityScore < f.minCredibility

\* ------------------------------------------------------------------------
\* C35: the evaluated content the orchestrator hands to the Synthesize phase
\* is the output of the high-quality filter, in the session-aware pipeline
\* as in the session-less one: every source in it has relevance >= 5 and
\* credibility >= 4.
\* ------------------------------------------------------------------------
C35_SynthesisGetsFilteredContent ==
  \A r \in RunIds :
    (runs[r].pc = "synthesize" /\ runs[r].evaluationResults # Undefined) =>
      LET input == synthesisInput(runs[r])
      IN /\ input = sessionlessSynthesisInput(runs[r].evaluationResults[1])
         /\ \A i \in 1..Len(input) :
              \A k \in 1..Len(input[i].evaluatedContent) :
                /\ input[i].evaluatedContent[k].relevanceScore >= 5
                /\ input[i].evaluatedContent[k].credibilityScore >= 4

\* ------------------------------------------------------------------------
\* C36: for every synthesis result, of the model path or of the template
\* fallback, citationsUsed is the number of distinct citation markers [n] in
\* its fullReport.
\* ------------------------------------------------------------------------
DistinctMarkers(report) == { report.markers[k] : k \in 1..Len(report.markers) }

C36_CitationsUsedCountsMarkers ==
  evaluation.pc = "returned" =>
    \A reply \in { Undefined } \cup { Some(text) : text \in ReportReplies } :
      LET synthesisResult == synthesizeReportFrom(reply, evaluation.results)
      IN synthesisResult.citationsUsed =
           Cardinality(DistinctMarkers(synthesisResult.fullReport))

\* ------------------------------------------------------------------------
\* C40: the citation number a source gets in the synthesis prompt is the
\* number the same source gets in the Sources section that post-processing
\* appends when the model's text has none.
\* ------------------------------------------------------------------------
C40_PromptNumbersMatchSourcesSection ==
  evaluation.pc = "returned" =>
    LET prompt == formatResearchData(evaluation.results)
    IN \A r \in 1..Len(prompt) :
         \A k \in 1..Len(prompt[r]) :
           prompt[r][k] = sourcesSectionNumber(evaluation.results, r, k)

\* ------------------------------------------------------------------------
\* C37: for the same search output, max mode evaluates every source of a
\* subtopic while normal mode evaluates at most the first 10, and a
\* pipeline run in max mode can evaluate more than 10 sources for a
\* subtopic: whenever the search loop is about to search a subtopic, some
\* answer of the backends makes it append an entry of which max mode keeps
\* more than 10 sources.
\* ------------------------------------------------------------------------
\* Backend answers of 12 and of 35 items, next to the ones of TavilyAnswers
DeepTavilyAnswers ==
  { [ok |-> TRUE, items |-> [n \in 1..size |-> TavilyItem(n, Some(<< "content" >>), Undefined)]] :
      size \in {12, 35} }

DeepBackendAnswers ==
  [ tavily : TavilyAnswers \cup DeepTavilyAnswers,
    backup : TavilyAnswers \cup DeepTavilyAnswers,
    perplexity : PerplexityAnswers ]

\* A search entry of n sources, whatever produced it
EntryOfSize(n) == [ subtopic |-> "t1", results |-> [ k \in 1..n |-> << "source", k >> ] ]

ModesOnSameSearchOutput ==
  \A n \in {0, 5, 10, 11, 35} :
    /\ limitedResults(EntryOfSize(n), "max") = EntryOfSize(n).results
    /\ limitedResults(EntryOfSize(n), "normal") =
         SubSeq(EntryOfSize(n).results, 1, IF n < 10 THEN n ELSE 10)

SearchPending ==
  /\ search.pc = "loop"
  /\ search.i < Len(search.subtopics)
  /\ search.subtopics[search.i + 1] # NonString

C37_MaxModeEvaluatesMoreThanTen ==
  SearchPending =>
    /\ ModesOnSameSearchOutput
    /\ \E answers \in DeepBackendAnswers :
         LET entry == searchIteration(search, answers).results[search.i + 1]
         IN Len(limitedResults(entry, "max")) > 10

\* The first part alone, and what the search hands over: at most 5 sources
\* for a subtopic, which both modes keep whole.
C37_ModesAgreeOnPipelineOutput ==
  /\ SearchPending => ModesOnSameSearchOutput
  /\ \A k \in 1..Len(search.results) :
       /\ Len(search.results[k].results) <= 5
       /\ limitedResults(search.results[k], "max") =
            limitedResults(search.results[k], "normal")

\* ------------------------------------------------------------------------
\* C38: resumeSession on a session that is neither completed nor failed
\* changes only status (to pending), progress (to 0), currentPhase,
\* updatedAt and errorMessage, and leaves id, question, createdAt and the
\* four result slots as they were; on a missing, completed or failed
\* session it returns null and changes nothing.
\* ------------------------------------------------------------------------
ResumeChanges == {"status", "progress", "currentPhase", "updatedAt", "errorMessage"}

ResumeFrame(sessionId) ==
  LET st == resumeSession(TheStore, sessionId, now)
      returned == resumeSessionReturn(TheStore, sessionId, now)
  IN IF sessionId \in mapKeys /\ objects[sessionId].status \notin Terminal
     THEN /\ returned = Some(st.objs[sessionId])
          /\ st.keys = mapKeys
          /\ \A i \in DOMAIN objects \ {sessionId} : st.objs[i] = objects[i]
          /\ \A f \in DOMAIN objects[sessionId] \ ResumeChanges :
               st.objs[sessionId][f] = objects[sessionId][f]
          /\ st.objs[sessionId].status = "pending"
          /\ st.objs[sessionId].progress = 0
          /\ st.objs[sessionId].updatedAt = now
          /\ st.objs[sessionId].errorMessage = Undefined
     ELSE /\ returned = Undefined
          /\ st = TheStore

\* The resumes that POST performs change the stored session in the same way.
ResumedByPost(sessionId) ==
  /\ sessionId \in mapKeys \cap mapKeys'
  /\ objects[sessionId].status # "pending"
  /\ objects'[sessionId].status = "pending"

C38_ResumeFrame ==
  [][ /\ \A sessionId \in 0..MaxSessions : ResumeFrame(sessionId)
      /\ \A sessionId \in 1..MaxSessions :
           ResumedByPost(sessionId) =>
             /\ \A f \in Slots \cup {"id", "question", "createdAt"} :
                  objects'[sessionId][f] = objects[sessionId][f]
             /\ objects[sessionId].status \notin Terminal ]_vars

\* A session that holds a plan has been resumed: it is pending again, with
\* its plan, and a second run has started on it.
C38_Witness ==
  \E i \in mapKeys :
    /\ objects[i].status = "pending"
    /\ objects[i].progress = 0
    /\ objects[i].planningResult # Undefined
    /\ Len(runs) = 2
    /\ \A r \in RunIds : runs[r].sid = i

\* ------------------------------------------------------------------------
\* C39: when a session is deleted while its run is in progress, the run goes
\* on to its terminal event, no error is caused by the deletion (the run
\* fails only where a run on a stored session fails: the search of a
\* subtopic that is not a string), and no step of the run puts the session
\* back into the store.
\* ------------------------------------------------------------------------
NewErrors(r) ==
  { k \in (Len(runs[r].stream) + 1)..Len(runs'[r].stream) :
      runs'[r].stream[k].event.kind = "error" }

C39_DeletedSessionRunGoesOn ==
  [][ \A r \in RunIds :
        (runs'[r] # runs[r] /\ runs[r].sid \notin mapKeys) =>
          /\ mapKeys' = mapKeys
          /\ NewErrors(r) # {} =>
               /\ runs[r].pc = "search"
               /\ searchThrows(runs[r].planningResult[1].subtopics)
          /\ (runs[r].pc # "done" /\ runs'[r].pc = "done") =>
               \E k \in (Len(runs[r].stream) + 1)..Len(runs'[r].stream) :
                 IsTerminalEvent(runs'[r].stream[k]) ]_vars

\* A run whose session was deleted before its evaluation has ended with the
\* success event, the session still absent from the store.
C39_Witness ==
  \E r \in RunIds :
    /\ runs[r].pc = "done"
    /\ EmittedKind(runs[r], "success")
    /\ runs[r].sid \notin mapKeys
    /\ objects[runs[r].sid].planningResult # Undefined
    /\ objects[runs[r].sid].evaluationResults = Undefined

====
